---------------------------- MODULE Spec2Model ----------------------------
(***************************************************************************)
(* A model of the optees utility core:                                     *)
(*   - solve_knapsack_01      (src/src/optees/utility/knapsack_utils.py)   *)
(*   - load_lpnetlib_mat      (.../data_adapters/lpnetlib_adapter.py)      *)
(*   - solve_milp             (src/src/optees/utility/milp_utils.py)       *)
(* Each component is a call that runs from its arguments to a returned     *)
(* value or a raised error.  The three components share no state, so each  *)
(* has its own specification; the variables of the other two stay idle.    *)
(***************************************************************************)
EXTENDS Integers, Sequences, FiniteSets, TLC

(***************************************************************************)
(* Bounds of the model.                                                    *)
(***************************************************************************)
MaxItems == 2

MaxValue == 2

MaxWeight == 2

MaxCap == 3

MaxRows == 2

MaxCols == 2

MaxEqTol == 1

MaxVars == 2

\* Largest number of non-blank lines of a Burkardt text file.
MaxLines == 2

\* Largest number of whitespace-separated tokens on a line of a .solu file.
MaxTokens == 3

\* The points x at which two constraint systems are compared have their
\* coordinates in -MaxCoord..MaxCoord.
MaxCoord == 2

(***************************************************************************)
(* Python numbers.  A number is kept in halves (h = 2 * value) together    *)
(* with its Python type, so that 3, 3.0 and 3.5 are three different        *)
(* arguments: PyInt(3).h = 6, PyFloat(6) is 3.0, PyFloat(7) is 3.5.        *)
(***************************************************************************)
PyInt(k) == [kind |-> "int", h |-> 2 * k]

PyFloat(halves) == [kind |-> "float", h |-> halves]

\* float.is_integer()
is_integer(x) == x.h % 2 = 0

\* int(x) for an integral x
ToInt(x) == x.h \div 2

RECURSIVE SumOver(_, _)
SumOver(f, S) ==
    IF S = {} THEN 0
    ELSE LET e == CHOOSE e \in S : TRUE IN f[e] + SumOver(f, S \ {e})

Reverse(s) == [k \in 1..Len(s) |-> s[Len(s) + 1 - k]]

Range(q) == {q[k] : k \in 1..Len(q)}

Abs(k) == IF k < 0 THEN -k ELSE k

Min(a, b) == IF a <= b THEN a ELSE b

\* [x] * k
Vec(k, x) == [j \in 1..k |-> x]

\* An optional value: Python's None, or a value.
None == <<>>

Some(x) == <<x>>

VARIABLES
    \* ---- solve_knapsack_01 ----
    kpc,          \* position in solve_knapsack_01
    values,       \* argument: item values (1-based here, 0-based in Python)
    weights,      \* argument: item weights, Python numbers
    capacity,     \* argument (and local, re-bound by line 70): a Python number
    w_ints,       \* local: the weights as integers
    dp,           \* local: the DP table, dp[i][w], i in 0..n, w in 0..capacity
    i,            \* local: loop index of the fill and of the reconstruction
    w,            \* local: remaining capacity during the reconstruction
    selected,     \* local: the indices chosen, 0-based as in Python
    best_value,   \* returned objective
    kerror,       \* message of the raised ValueError, "" if none
    \* ---- load_lpnetlib_mat ----
    lpc,          \* position in load_lpnetlib_mat
    mat,          \* the fields resolved from the .mat file (lines 115-132)
    eq_tol,       \* argument: tolerance of the rl == ru test
    bounds,       \* local: the variable bounds, one (lower, upper) per column
    eq_idx,       \* local: rows classified as equalities
    le_idx,       \* local: rows classified as <= rows
    ge_idx,       \* local: rows classified as >= rows
    A_eq,         \* local: optional equality matrix
    b_eq,         \* local: optional equality right-hand side
    A_ub_blocks,  \* local: the blocks stacked into A_ub
    b_ub_blocks,  \* local: the blocks concatenated into b_ub
    lp_problem,   \* the returned problem dict, <<>> until returned
    lerror,       \* message of the raised ValueError, "" if none
    \* ---- solve_milp ----
    mpc,          \* position in solve_milp
    problem,      \* argument: the raw problem mapping (a missing key is None)
    P,            \* local: the normalized problem, None before _normalize
    backend,      \* which backend the call was routed to: none, cbc, cpsat
    model,        \* local: the backend model built by the translation
    status_code,  \* the backend's status code, None before Solve
    backend_obj,  \* the objective value the backend reports
    backend_x,    \* the variable values the backend reports
    result,       \* the returned (status, objective, assignment, extras)
    merror,       \* message of the raised ValueError, "" if none
    \* ---- load_knapsack_burkardt ----
    bpc,          \* position in load_knapsack_burkardt
    c_file,       \* the numbers of <inst>_c.txt, one per non-blank line
    w_file,       \* the numbers of <inst>_w.txt
    p_file,       \* the numbers of <inst>_p.txt
    s_file,       \* the numbers of <inst>_s.txt, None if the file is absent
    bk_capacity,  \* local capacity: None before _read_single_int returns
    bk_weights,   \* local weights: the weights cast so far
    instance,     \* the returned dict, None until returned
    berror,       \* message of the raised ValueError, "" if none
    \* ---- parse_miplib_solu ----
    spc,          \* position in parse_miplib_solu
    solu,         \* the lines of the .solu file, each a sequence of tokens
    lineno,       \* number of lines consumed by the loop of line 16
    out,          \* local: the mapping built so far
    \* ---- _fetch_primary_then_aux ----
    fpc,          \* position in _fetch_primary_then_aux
    primary,      \* argument: the primary container
    aux,          \* argument: the auxiliary container, or None
    alias_names,  \* argument *names: the aliases of one field, in order
    fetched       \* local v: the value fetched, None if no alias is exposed

knapVars == <<kpc, values, weights, capacity, w_ints, dp, i, w, selected,
              best_value, kerror>>

lpVars == <<lpc, mat, eq_tol, bounds, eq_idx, le_idx, ge_idx, A_eq, b_eq,
            A_ub_blocks, b_ub_blocks, lp_problem, lerror>>

milpVars == <<mpc, problem, P, backend, model, status_code, backend_obj,
              backend_x, result, merror>>

burkVars == <<bpc, c_file, w_file, p_file, s_file, bk_capacity, bk_weights,
              instance, berror>>

soluVars == <<spc, solu, lineno, out>>

fetchVars == <<fpc, primary, aux, alias_names, fetched>>

vars == <<knapVars, lpVars, milpVars, burkVars, soluVars, fetchVars>>

\* A component that is not the one under study does not run.
KnapIdle ==
    /\ kpc = "idle"
    /\ values = <<>>
    /\ weights = <<>>
    /\ capacity = PyInt(0)
    /\ w_ints = <<>>
    /\ dp = <<>>
    /\ i = 0
    /\ w = 0
    /\ selected = <<>>
    /\ best_value = 0
    /\ kerror = ""

LpIdle ==
    /\ lpc = "idle"
    /\ mat = <<>>
    /\ eq_tol = 0
    /\ bounds = <<>>
    /\ eq_idx = <<>>
    /\ le_idx = <<>>
    /\ ge_idx = <<>>
    /\ A_eq = <<>>
    /\ b_eq = <<>>
    /\ A_ub_blocks = <<>>
    /\ b_ub_blocks = <<>>
    /\ lp_problem = <<>>
    /\ lerror = ""

MilpIdle ==
    /\ mpc = "idle"
    /\ problem = <<>>
    /\ P = <<>>
    /\ backend = "none"
    /\ model = <<>>
    /\ status_code = <<>>
    /\ backend_obj = <<>>
    /\ backend_x = <<>>
    /\ result = <<>>
    /\ merror = ""

BurkIdle ==
    /\ bpc = "idle"
    /\ c_file = <<>>
    /\ w_file = <<>>
    /\ p_file = <<>>
    /\ s_file = <<>>
    /\ bk_capacity = <<>>
    /\ bk_weights = <<>>
    /\ instance = <<>>
    /\ berror = ""

SoluIdle ==
    /\ spc = "idle"
    /\ solu = <<>>
    /\ lineno = 0
    /\ out = <<>>

FetchIdle ==
    /\ fpc = "idle"
    /\ primary = <<>>
    /\ aux = <<>>
    /\ alias_names = <<>>
    /\ fetched = <<>>

(***************************************************************************)
(*                          solve_knapsack_01                              *)
(***************************************************************************)
knapOthers == <<lpVars, milpVars, burkVars, soluVars, fetchVars>>

ValueSet == -1..MaxValue

WeightSet == {PyInt(k) : k \in -1..MaxWeight} \cup {PyFloat(2), PyFloat(3)}

CapacitySet == {PyInt(k) : k \in -1..MaxCap}
                   \cup {PyFloat(2 * MaxCap), PyFloat(2 * MaxCap + 1)}

SeqsUpTo(S, n) == UNION {[1..k -> S] : k \in 0..n}

\* The checks of lines 56-83 with the early return of lines 61-62 moved
\* behind the checks of the weights and of the capacity.
ValidationBeforeEarlyReturn(vs, ws, c) ==
    IF Len(vs) # Len(ws) THEN "values and weights must have the same length."
    ELSE IF c.h < 0 THEN "capacity must be >= 0."
    ELSE IF \E k \in 1..Len(ws) : ws[k].h < 0 THEN "weights must be non-negative."
    ELSE IF c.kind # "int" /\ ~(c.kind = "float" /\ is_integer(c))
         THEN "capacity must be an integer."
    ELSE IF \E k \in 1..Len(ws) : ws[k].kind = "float" /\ ~is_integer(ws[k])
         THEN "weights must be integers."
    ELSE IF Len(vs) = 0 \/ c.h = 0 THEN "trivial"
    ELSE "ok"

\* The first of the checks of lines 56-83 that stops the call, or "ok".
Validation(vs, ws, c) ==
    IF Len(vs) # Len(ws) THEN "values and weights must have the same length."
    ELSE IF c.h < 0 THEN "capacity must be >= 0."
    ELSE IF Len(vs) = 0 \/ c.h = 0 THEN "trivial"
    ELSE IF \E k \in 1..Len(ws) : ws[k].h < 0 THEN "weights must be non-negative."
    ELSE IF c.kind # "int" /\ ~(c.kind = "float" /\ is_integer(c))
         THEN "capacity must be an integer."
    ELSE IF \E k \in 1..Len(ws) : ws[k].kind = "float" /\ ~is_integer(ws[k])
         THEN "weights must be integers."
    ELSE "ok"

\* dp[i][w] with Python's indexing: a negative index counts from the end.
Cell(table, row, col, cap) ==
    table[row][IF col < 0 THEN cap + 1 + col ELSE col]

\* Lines 89-99: row i of the table from row i-1.
FillRow(prev, v_i, w_i, cap) ==
    [col \in 0..cap |->
        LET best == prev[col] IN
        IF w_i <= col /\ prev[col - w_i] + v_i > best
        THEN prev[col - w_i] + v_i
        ELSE best]

\* Line 107 with the other tie-break: item i-1 counts as taken whenever
\* taking it reaches the value of the cell.
TakenWheneverPossible(table, row, col, cap) ==
    /\ w_ints[row] <= col
    /\ table[row - 1][col - w_ints[row]] + values[row] = table[row][col]

\* Line 107: item i-1 was taken.
Taken(table, row, col, cap) ==
    Cell(table, row, col, cap) # Cell(table, row - 1, col, cap)

KnapInit ==
    /\ kpc = "start"
    /\ values \in SeqsUpTo(ValueSet, MaxItems)
    /\ weights \in SeqsUpTo(WeightSet, MaxItems)
    /\ Len(weights) \in {Len(values), Len(values) - 1}
    /\ capacity \in CapacitySet
    /\ w_ints = <<>>
    /\ dp = <<>>
    /\ i = 0
    /\ w = 0
    /\ selected = <<>>
    /\ best_value = 0
    /\ kerror = ""
    /\ LpIdle
    /\ MilpIdle
    /\ BurkIdle
    /\ SoluIdle
    /\ FetchIdle

\* Lines 56-59, 65-83: a check fails and ValueError is raised.
KnapRaise ==
    /\ UNCHANGED knapOthers
    /\ kpc = "start"
    /\ Validation(values, weights, capacity) \notin {"ok", "trivial"}
    /\ kerror' = Validation(values, weights, capacity)
    /\ kpc' = "raised"
    /\ UNCHANGED <<values, weights, capacity, w_ints, dp, i, w, selected,
                   best_value>>

\* Lines 61-62: n == 0 or capacity == 0 returns (0.0, []).
KnapTrivial ==
    /\ UNCHANGED knapOthers
    /\ kpc = "start"
    /\ Validation(values, weights, capacity) = "trivial"
    /\ best_value' = 0
    /\ selected' = <<>>
    /\ kpc' = "returned"
    /\ UNCHANGED <<values, weights, capacity, w_ints, dp, i, w, kerror>>

\* Lines 65-86: the arguments pass; capacity and the weights become ints and
\* the table is allocated, all cells 0.0.
KnapValidated ==
    /\ UNCHANGED knapOthers
    /\ kpc = "start"
    /\ Validation(values, weights, capacity) = "ok"
    /\ capacity' = PyInt(ToInt(capacity))
    /\ w_ints' = [k \in 1..Len(weights) |-> ToInt(weights[k])]
    /\ dp' = [row \in 0..Len(values) |-> [col \in 0..ToInt(capacity) |-> 0]]
    /\ i' = 1
    /\ kpc' = "fill"
    /\ UNCHANGED <<values, weights, w, selected, best_value, kerror>>

\* Lines 88-101: one iteration of the outer loop; after the last one the
\* objective is read and the reconstruction starts at (n, capacity).
KnapFill ==
    /\ UNCHANGED knapOthers
    /\ kpc = "fill"
    /\ LET cap == ToInt(capacity)
           n == Len(values)
           row == FillRow(dp[i - 1], values[i], w_ints[i], cap)
           table == [dp EXCEPT ![i] = row]
       IN  /\ dp' = table
           /\ IF i < n
              THEN /\ i' = i + 1
                   /\ UNCHANGED <<kpc, best_value, w>>
              ELSE /\ best_value' = table[n][cap]
                   /\ w' = cap
                   /\ i' = n
                   /\ kpc' = "reconstruct"
    /\ UNCHANGED <<values, weights, capacity, w_ints, selected, kerror>>

\* Lines 106-110 without line 110: the remaining capacity is never reduced.
KnapReconstructKeepingCapacity ==
    /\ UNCHANGED knapOthers
    /\ kpc = "reconstruct"
    /\ i >= 1
    /\ IF Taken(dp, i, w, ToInt(capacity))
       THEN selected' = Append(selected, i - 1)
       ELSE UNCHANGED selected
    /\ i' = i - 1
    /\ UNCHANGED <<kpc, values, weights, capacity, w_ints, dp, w, best_value,
                   kerror>>

\* Lines 106-110: one iteration of the backward loop.
KnapReconstruct ==
    /\ UNCHANGED knapOthers
    /\ kpc = "reconstruct"
    /\ i >= 1
    /\ IF Taken(dp, i, w, ToInt(capacity))
       THEN /\ selected' = Append(selected, i - 1)
            /\ w' = w - w_ints[i]
       ELSE UNCHANGED <<selected, w>>
    /\ i' = i - 1
    /\ UNCHANGED <<kpc, values, weights, capacity, w_ints, dp, best_value,
                   kerror>>

\* Lines 111-113 without line 111: the list is returned as it was built.
KnapReturnUnreversed ==
    /\ UNCHANGED knapOthers
    /\ kpc = "reconstruct"
    /\ i = 0
    /\ kpc' = "returned"
    /\ UNCHANGED <<values, weights, capacity, w_ints, dp, i, w, selected,
                   best_value, kerror>>

\* Lines 111-113: selected.reverse(); return.
KnapReturn ==
    /\ UNCHANGED knapOthers
    /\ kpc = "reconstruct"
    /\ i = 0
    /\ selected' = Reverse(selected)
    /\ kpc' = "returned"
    /\ UNCHANGED <<values, weights, capacity, w_ints, dp, i, w, best_value,
                   kerror>>

KnapNext ==
    \/ KnapRaise
    \/ KnapTrivial
    \/ KnapValidated
    \/ KnapFill
    \/ KnapReconstruct
    \/ KnapReturn

SpecKnapsack == KnapInit /\ [][KnapNext]_vars

(***************************************************************************)
(* Properties of solve_knapsack_01.                                        *)
(***************************************************************************)
\* The weight of item k (1-based) in halves, as the caller supplied it.
ItemsOf(sel) == {sel[k] + 1 : k \in 1..Len(sel)}

ValuesAt == [k \in 1..Len(values) |-> values[k]]

HalvesAt == [k \in 1..Len(weights) |-> weights[k].h]

\* A valid instance: equal lengths, integral non-negative weights and capacity.
ValidInstance ==
    /\ Len(values) = Len(weights)
    /\ \A k \in 1..Len(weights) : weights[k].h >= 0 /\ is_integer(weights[k])
    /\ capacity.h >= 0 /\ is_integer(capacity)

FeasibleSubsets ==
    {S \in SUBSET (1..Len(values)) : SumOver(HalvesAt, S) <= capacity.h}

\* The optimum by enumeration of all subsets.
BruteForce ==
    LET totals == {SumOver(ValuesAt, S) : S \in FeasibleSubsets}
    IN  CHOOSE t \in totals : \A u \in totals : u <= t

\* C1 (as claimed): on every valid instance, capacity 0 and zero-weight items
\* included, the returned objective is the brute-force optimum.
C1_ObjectiveIsBruteForce ==
    (kpc = "returned" /\ ValidInstance) => best_value = BruteForce

\* C1, the part the code does satisfy: when the table is built (n >= 1 and
\* capacity >= 1) the returned objective is the brute-force optimum.
C1_ObjectiveIsBruteForceWhenTableBuilt ==
    (kpc = "returned" /\ dp # <<>>) => best_value = BruteForce

\* C2: the returned indices are strictly ascending, lie in 0..n-1, and their
\* total weight is at most the capacity.
C2_SelectionAscendingAndFits ==
    kpc = "returned" =>
        /\ \A k \in 1..Len(selected) : selected[k] \in 0..(Len(values) - 1)
        /\ \A k \in 1..(Len(selected) - 1) : selected[k] < selected[k + 1]
        /\ SumOver(HalvesAt, ItemsOf(selected)) <= capacity.h

\* C2 witness: a call that went through the table and returned two items.
C2_Witness ==
    kpc = "returned" /\ dp # <<>> /\ Len(selected) >= 2

\* Some argument is one the claim says must be rejected.
RejectedByClaim ==
    \/ Len(values) # Len(weights)
    \/ \E k \in 1..Len(weights) : weights[k].h < 0
    \/ ~is_integer(capacity)

\* C3 (as claimed): mismatched lengths, a negative weight or a non-integral
\* capacity always end in a raised error, also when capacity is 0; an
\* integral float capacity is accepted and becomes the integer.
C3_InvalidArgumentsRaise ==
    /\ RejectedByClaim => kpc \in {"start", "raised"}
    /\ ValidInstance => kpc # "raised"
    /\ (kpc \in {"fill", "reconstruct"}) => capacity.kind = "int"

C5_ObjectiveIsSelectionValue ==
    kpc = "returned" => best_value = SumOver(ValuesAt, ItemsOf(selected))

\* C5 witness: a returned selection of two items with a positive objective.
C5_Witness ==
    kpc = "returned" /\ Len(selected) = 2 /\ best_value > 0

(***************************************************************************)
(*                          load_lpnetlib_mat                              *)
(*                                                                         *)
(* mat holds the fields as lines 115-132 resolve them: each is None or a   *)
(* value.  Vector entries that may be infinite are extended reals.         *)
(***************************************************************************)
lpOthers == <<knapVars, milpVars, burkVars, soluVars, fetchVars>>

Fin(v) == [fin |-> TRUE, v |-> v]

PosInf == [fin |-> FALSE, v |-> 1]

NegInf == [fin |-> FALSE, v |-> -1]

\* np.isfinite
isfinite(x) == x.fin

\* unary minus on an extended real
Negate(x) == [x EXCEPT !.v = -x.v]

\* Line 191 without the minus sign: the row is stacked as it is.
RowNotNegated(row) == row

\* Line 191: -A[ge_idx, :], one row of it.
NegateRow(row) == [j \in 1..Len(row) |-> -row[j]]

\* x[idx] / A[idx, :] : the entries (rows) of x at the positions idx, in order.
Take(x, idx) == [k \in 1..Len(idx) |-> x[idx[k]]]

\* np.where(flags)[0] : the positions that hold TRUE, ascending.
Where(flags) ==
    LET Holds(r) == flags[r]
    IN  SelectSeq([r \in 1..Len(flags) |-> r], Holds)

RECURSIVE Concat(_)
\* sparse.vstack / np.concatenate of a list of blocks
Concat(blocks) ==
    IF blocks = <<>> THEN <<>> ELSE Head(blocks) \o Concat(Tail(blocks))

\* The m x n coefficient matrix of the instance: rows are pairwise different,
\* non-zero, and different from each other's negation.
MatrixOf(m, n) == [r \in 1..m |-> [j \in 1..n |-> IF j = 1 THEN r ELSE r - j]]

RowBoundSet == {NegInf, Fin(0), Fin(1), PosInf}

\* Files that differ in which fields are present and in their lengths.
ShapeFamily(m, n) ==
    [A  : {None, Some(MatrixOf(m, n))},
     c  : {None, Some(Vec(n, 1)), Some(Vec(n + 1, 1))},
     b  : {None, Some(Vec(m, Fin(2))), Some(Vec(m + 1, Fin(2)))},
     rl : {None, Some(Vec(m, Fin(0))), Some(Vec(m + 1, Fin(0)))},
     ru : {None, Some(Vec(m, Fin(1))), Some(Vec(m + 1, Fin(1)))},
     lo : {None, Some(Vec(n, NegInf)), Some(Vec(n + 1, Fin(-1)))},
     hi : {None, Some(Vec(n, Fin(2))), Some(Vec(n + 1, PosInf))},
     z0 : {None, Some([ok |-> TRUE, v |-> 5]), Some([ok |-> FALSE, v |-> 0])}]

\* Well-formed files that differ in their row bounds.
RowFamily(m, n) ==
    [A  : {Some(MatrixOf(m, n))},
     c  : {Some(Vec(n, 1))},
     b  : {None, Some(Vec(m, Fin(2)))},
     rl : {None} \cup {Some(v) : v \in [1..m -> RowBoundSet]},
     ru : {None} \cup {Some(v) : v \in [1..m -> RowBoundSet]},
     lo : {None},
     hi : {None},
     z0 : {None}]

\* Well-formed files without row constraints that differ in their variable
\* bounds: each vector absent or present, each entry finite or infinite.
BoundFamily(m, n) ==
    [A  : {Some(MatrixOf(m, n))},
     c  : {Some(Vec(n, 1))},
     b  : {None},
     rl : {None},
     ru : {None},
     lo : {None} \cup {Some(v) : v \in [1..n -> {NegInf, Fin(-1), Fin(0)}]},
     hi : {None} \cup {Some(v) : v \in [1..n -> {Fin(2), PosInf}]},
     z0 : {None}]

Shapes == (1..MaxRows) \X (1..MaxCols)

\* m, n = A.shape
NumRows(M) == Len(M.A[1])

NumCols(M) == Len(M.A[1][1])

\* Lines 144-147 with the default tied to hi: zeros only when hi is absent
\* too, minus infinity otherwise.
lo_vec_defaulting_jointly(M) ==
    IF M.lo # None THEN M.lo[1]
    ELSE IF M.hi = None THEN Vec(NumCols(M), Fin(0))
    ELSE Vec(NumCols(M), NegInf)

\* Lines 144-152: lo and hi with their defaults.
lo_vec(M) == IF M.lo = None THEN Vec(NumCols(M), Fin(0)) ELSE M.lo[1]

hi_vec(M) == IF M.hi = None THEN Vec(NumCols(M), PosInf) ELSE M.hi[1]

\* Lines 134-155: the error of the first failing check, "" if none.
ShapeError(M) ==
    IF M.A = None \/ M.c = None
    THEN "Invalid .mat: missing A or c (unrecognized structure)."
    ELSE IF Len(M.c[1]) # NumCols(M)
    THEN "Inconsistent sizes: len(c) != n (columns of A)."
    ELSE IF Len(lo_vec(M)) # NumCols(M) \/ Len(hi_vec(M)) # NumCols(M)
    THEN "Inconsistent variable bounds: len(lo/hi) != n."
    ELSE ""

\* Lines 157-161: a bound that is not finite is emitted as None.
VariableBounds(M) ==
    [j \in 1..NumCols(M) |->
        <<IF isfinite(lo_vec(M)[j]) THEN Some(lo_vec(M)[j].v) ELSE None,
          IF isfinite(hi_vec(M)[j]) THEN Some(hi_vec(M)[j].v) ELSE None>>]

HasRowBounds(M) == M.rl # None \/ M.ru # None

\* Lines 170-171: rl and ru with their defaults.
rl_vec(M) == IF M.rl # None THEN M.rl[1] ELSE Vec(NumRows(M), NegInf)

ru_vec(M) == IF M.ru # None THEN M.ru[1] ELSE Vec(NumRows(M), PosInf)

\* Lines 172-173, 196-197 with the check of len(b) moved out of the elif:
\* b is checked whenever it is present.
RowErrorCheckingRhsAlways(M) ==
    IF HasRowBounds(M) /\ (Len(rl_vec(M)) # NumRows(M) \/ Len(ru_vec(M)) # NumRows(M))
    THEN "Inconsistent row bounds: len(rl/ru) != m (rows of A)."
    ELSE IF M.b # None /\ Len(M.b[1]) # NumRows(M)
    THEN "Inconsistent sizes: len(b) != m (rows of A)."
    ELSE ""

\* Lines 172-173, 196-197: the error of the row checks, "" if none.
RowError(M) ==
    IF HasRowBounds(M)
    THEN IF Len(rl_vec(M)) # NumRows(M) \/ Len(ru_vec(M)) # NumRows(M)
         THEN "Inconsistent row bounds: len(rl/ru) != m (rows of A)."
         ELSE ""
    ELSE IF M.b # None /\ Len(M.b[1]) # NumRows(M)
    THEN "Inconsistent sizes: len(b) != m (rows of A)."
    ELSE ""

\* Line 176: finite rl == ru within eq_tol.
is_eq(rlv, ruv, tol) ==
    [r \in 1..Len(rlv) |->
        /\ isfinite(rlv[r])
        /\ isfinite(ruv[r])
        /\ Abs(rlv[r].v - ruv[r].v) <= tol]

\* Line 177
EqRows(rlv, ruv, tol) == Where(is_eq(rlv, ruv, tol))

\* Line 183 without "& ~is_eq": the equalities are listed again as <= rows.
LeRowsKeepingEqualities(rlv, ruv, tol) ==
    Where([r \in 1..Len(ruv) |-> isfinite(ruv[r])])

\* Line 183: finite ru, equalities excluded.
LeRows(rlv, ruv, tol) ==
    Where([r \in 1..Len(ruv) |-> isfinite(ruv[r]) /\ ~is_eq(rlv, ruv, tol)[r]])

\* Line 189 with "~np.isfinite(ru_vec)" for "~is_eq": a row that has an
\* upper bound too is not listed as a >= row.
GeRowsWithoutUpper(rlv, ruv, tol) ==
    Where([r \in 1..Len(rlv) |-> isfinite(rlv[r]) /\ ~isfinite(ruv[r])])

\* Line 189: finite rl, equalities excluded.
GeRows(rlv, ruv, tol) ==
    Where([r \in 1..Len(rlv) |-> isfinite(rlv[r]) /\ ~is_eq(rlv, ruv, tol)[r]])

LpInit ==
    /\ lpc = "start"
    /\ \/ /\ mat \in UNION {ShapeFamily(s[1], s[2]) : s \in Shapes}
          /\ eq_tol = 0
       \/ /\ mat \in UNION {RowFamily(s[1], s[2]) : s \in Shapes}
          /\ eq_tol \in {0, MaxEqTol}
       \/ /\ mat \in UNION {BoundFamily(s[1], s[2]) : s \in Shapes}
          /\ eq_tol = 0
    /\ bounds = <<>>
    /\ eq_idx = <<>>
    /\ le_idx = <<>>
    /\ ge_idx = <<>>
    /\ A_eq = None
    /\ b_eq = None
    /\ A_ub_blocks = <<>>
    /\ b_ub_blocks = <<>>
    /\ lp_problem = <<>>
    /\ lerror = ""
    /\ KnapIdle
    /\ MilpIdle
    /\ BurkIdle
    /\ SoluIdle
    /\ FetchIdle

\* Lines 134-141, 154-155: a required field is missing or a length is wrong.
LpRaiseShape ==
    /\ UNCHANGED lpOthers
    /\ lpc = "start"
    /\ ShapeError(mat) # ""
    /\ lerror' = ShapeError(mat)
    /\ lpc' = "raised"
    /\ UNCHANGED <<mat, eq_tol, bounds, eq_idx, le_idx, ge_idx, A_eq, b_eq,
                   A_ub_blocks, b_ub_blocks, lp_problem>>

\* Lines 137-161: the shapes agree; the variable bounds are built.
LpVariableBounds ==
    /\ UNCHANGED lpOthers
    /\ lpc = "start"
    /\ ShapeError(mat) = ""
    /\ bounds' = VariableBounds(mat)
    /\ lpc' = "rows"
    /\ UNCHANGED <<mat, eq_tol, eq_idx, le_idx, ge_idx, A_eq, b_eq,
                   A_ub_blocks, b_ub_blocks, lp_problem, lerror>>

\* Lines 172-173, 196-197: a row vector has the wrong length.
LpRaiseRows ==
    /\ UNCHANGED lpOthers
    /\ lpc = "rows"
    /\ RowError(mat) # ""
    /\ lerror' = RowError(mat)
    /\ lpc' = "raised"
    /\ UNCHANGED <<mat, eq_tol, bounds, eq_idx, le_idx, ge_idx, A_eq, b_eq,
                   A_ub_blocks, b_ub_blocks, lp_problem>>

\* Lines 169-192: rl or ru is present; the rows are partitioned.
LpPartition ==
    /\ UNCHANGED lpOthers
    /\ lpc = "rows"
    /\ HasRowBounds(mat)
    /\ RowError(mat) = ""
    /\ LET A == mat.A[1]
           rlv == rl_vec(mat)
           ruv == ru_vec(mat)
           eqs == EqRows(rlv, ruv, eq_tol)
           les == LeRows(rlv, ruv, eq_tol)
           ges == GeRows(rlv, ruv, eq_tol)
           le_A == IF Len(les) > 0 THEN <<Take(A, les)>> ELSE <<>>
           le_b == IF Len(les) > 0 THEN <<Take(ruv, les)>> ELSE <<>>
           ge_A == IF Len(ges) > 0
                   THEN <<[k \in 1..Len(ges) |-> NegateRow(A[ges[k]])]>>
                   ELSE <<>>
           ge_b == IF Len(ges) > 0
                   THEN <<[k \in 1..Len(ges) |-> Negate(rlv[ges[k]])]>>
                   ELSE <<>>
       IN  /\ eq_idx' = eqs
           /\ le_idx' = les
           /\ ge_idx' = ges
           /\ A_eq' = IF Len(eqs) > 0 THEN Some(Take(A, eqs)) ELSE None
           /\ b_eq' = IF Len(eqs) > 0 THEN Some(Take(ruv, eqs)) ELSE None
           /\ A_ub_blocks' = le_A \o ge_A
           /\ b_ub_blocks' = le_b \o ge_b
    /\ lpc' = "assemble"
    /\ UNCHANGED <<mat, eq_tol, bounds, lp_problem, lerror>>

\* Lines 194-199: only b is present; the whole system is Ax = b.
LpWholeEquality ==
    /\ UNCHANGED lpOthers
    /\ lpc = "rows"
    /\ ~HasRowBounds(mat)
    /\ mat.b # None
    /\ RowError(mat) = ""
    /\ A_eq' = mat.A
    /\ b_eq' = mat.b
    /\ lpc' = "assemble"
    /\ UNCHANGED <<mat, eq_tol, bounds, eq_idx, le_idx, ge_idx, A_ub_blocks,
                   b_ub_blocks, lp_problem, lerror>>

\* Line 200: no row constraints at all.
LpNoRows ==
    /\ UNCHANGED lpOthers
    /\ lpc = "rows"
    /\ ~HasRowBounds(mat)
    /\ mat.b = None
    /\ lpc' = "assemble"
    /\ UNCHANGED <<mat, eq_tol, bounds, eq_idx, le_idx, ge_idx, A_eq, b_eq,
                   A_ub_blocks, b_ub_blocks, lp_problem, lerror>>

\* Lines 202-230: the blocks are stacked and the problem dict is returned.
\* A key the code leaves out of the dict is None here.
LpAssemble ==
    /\ UNCHANGED lpOthers
    /\ lpc = "assemble"
    /\ lp_problem' =
          Some([sense |-> "min",
                c |-> mat.c[1],
                bounds |-> bounds,
                var_names |-> [j \in 1..NumCols(mat) |-> <<"x", j - 1>>],
                A_eq |-> A_eq,
                b_eq |-> b_eq,
                A_ub |-> IF A_ub_blocks # <<>>
                         THEN Some(Concat(A_ub_blocks)) ELSE None,
                b_ub |-> IF A_ub_blocks # <<>>
                         THEN Some(Concat(b_ub_blocks)) ELSE None,
                obj_offset |-> IF mat.z0 # None /\ mat.z0[1].ok
                               THEN Some(mat.z0[1].v) ELSE None])
    /\ lpc' = "returned"
    /\ UNCHANGED <<mat, eq_tol, bounds, eq_idx, le_idx, ge_idx, A_eq, b_eq,
                   A_ub_blocks, b_ub_blocks, lerror>>

LpNext ==
    \/ LpRaiseShape
    \/ LpVariableBounds
    \/ LpRaiseRows
    \/ LpPartition
    \/ LpWholeEquality
    \/ LpNoRows
    \/ LpAssemble

SpecLpnetlib == LpInit /\ [][LpNext]_vars

(***************************************************************************)
(* Properties of load_lpnetlib_mat.                                        *)
(***************************************************************************)
RowCount(opt) == IF opt = None THEN 0 ELSE Len(opt[1])

\* The call returned and both rl and ru were resolved, with length m.
ReturnedWithRowBounds ==
    lpc = "returned" /\ mat.rl # None /\ mat.ru # None

\* Row r has two finite bounds further apart than eq_tol: a range row.
IsRangeRow(r) ==
    /\ mat.rl[1][r].fin
    /\ mat.ru[1][r].fin
    /\ Abs(mat.ru[1][r].v - mat.rl[1][r].v) > eq_tol

\* Row r has no finite bound: a free row.
IsFreeRow(r) == ~mat.rl[1][r].fin /\ ~mat.ru[1][r].fin

\* C6 (as claimed): every row is in exactly one of the three sets, the sets
\* are pairwise disjoint, and A_eq and A_ub together have exactly m rows.
C6_RowsInExactlyOneSet ==
    ReturnedWithRowBounds =>
        /\ \A r \in 1..NumRows(mat) :
              Cardinality({q \in {eq_idx, le_idx, ge_idx} : r \in Range(q)}) = 1
        /\ Range(eq_idx) \cap Range(le_idx) = {}
        /\ Range(eq_idx) \cap Range(ge_idx) = {}
        /\ Range(le_idx) \cap Range(ge_idx) = {}
        /\ RowCount(lp_problem[1].A_eq) + RowCount(lp_problem[1].A_ub)
              = NumRows(mat)

\* C6 (amended): an equality row is in no other set; a row is in the <= set
\* and in the >= set at once exactly when it is a range row, and in no set
\* exactly when it is a free row; no set lists a row twice; A_eq and A_ub
\* together have m rows plus one per range row minus one per free row.
C6_RowsClassified ==
    ReturnedWithRowBounds =>
        LET rows == 1..NumRows(mat) IN
        /\ Range(eq_idx) \cup Range(le_idx) \cup Range(ge_idx) \subseteq rows
        /\ Range(eq_idx) \cap Range(le_idx) = {}
        /\ Range(eq_idx) \cap Range(ge_idx) = {}
        /\ \A r \in rows :
              /\ (r \in Range(le_idx) /\ r \in Range(ge_idx)) <=> IsRangeRow(r)
              /\ (r \notin Range(eq_idx) \cup Range(le_idx) \cup Range(ge_idx))
                    <=> IsFreeRow(r)
        /\ \A q \in {eq_idx, le_idx, ge_idx} : Cardinality(Range(q)) = Len(q)
        /\ RowCount(lp_problem[1].A_eq) + RowCount(lp_problem[1].A_ub)
              = NumRows(mat)
                + Cardinality({r \in rows : IsRangeRow(r)})
                - Cardinality({r \in rows : IsFreeRow(r)})

\* C6 witness: a returned file with an equality row and a range row.
C6_Witness ==
    /\ ReturnedWithRowBounds
    /\ eq_idx # <<>>
    /\ \E r \in 1..NumRows(mat) : IsRangeRow(r)

(***************************************************************************)
(*                               solve_milp                                *)
(*                                                                         *)
(* A real number is kept as i + f * 5e-10, where i is an integer and       *)
(* -Half < f <= Half, so that i is the integer nearest to it (or one of    *)
(* the two nearest), 0.5 is Num(0, Half) and 1e-9 is two units.            *)
(***************************************************************************)
milpOthers == <<knapVars, lpVars, burkVars, soluVars, fetchVars>>

\* 0.5 in units of 5e-10
Half == 10^9

\* The tolerance 1e-9 of _is_int_like and _as_int, in units of 5e-10.
Tol == 2

\* The upper bound 10**9 that _build_model gives an integer variable without one.
CpSatDefaultUpper == 1000000000

Num(k, frac) == [i |-> k, f |-> frac]

Whole(k) == Num(k, 0)

\* x + y
AddNum(x, y) ==
    LET k == x.i + y.i
        g == x.f + y.f
    IN  IF g > Half THEN Num(k + 1, g - 2 * Half)
        ELSE IF g <= -Half THEN Num(k - 1, g + 2 * Half)
        ELSE Num(k, g)

\* x <= y
LessEq(x, y) == x.i < y.i \/ (x.i = y.i /\ x.f <= y.f)

\* Python's round(): the nearest integer, a tie going to the even one.
Round(x) == IF x.f = Half /\ x.i % 2 # 0 THEN x.i + 1 ELSE x.i

\* abs(float(x) - round(float(x))), in units of 5e-10.
RoundDistance(x) == IF Round(x) = x.i THEN Abs(x.f) ELSE 2 * Half - x.f

\* Lines 246-248
is_int_like(x) == RoundDistance(x) <= Tol

\* Lines 146-150 with the tolerance of line 148 set to 0: the cast fails on
\* every value that is not exactly its rounding.
as_int_fails_without_tolerance(x) == RoundDistance(x) > 0

\* Lines 146-150: the cast fails
as_int_fails(x) == RoundDistance(x) > Tol

\* Lines 146-150: the value of the cast
as_int(x) == Round(x)

\* str.lower() on the strings the callers pass
Lower(str) ==
    CASE str = "MAX" -> "max"
      [] str = "MIN" -> "min"
      [] OTHER -> str

\* Python's None as an integrality marker
NoneTok == "None"

DefaultNames(n) == [j \in 1..n |-> <<"x", j - 1>>]

\* ---- _normalize, lines 95-143 ----
sense_of(prob) ==
    Lower(IF prob.sense = None \/ prob.sense[1] = "" THEN "min"
          ELSE prob.sense[1])

integ_in(prob) ==
    IF prob.integrality = None THEN Vec(Len(prob.c), NoneTok)
    ELSE prob.integrality[1]

names_of(prob) ==
    IF prob.var_names = None \/ prob.var_names[1] = <<>>
    THEN DefaultNames(Len(prob.c))
    ELSE prob.var_names[1]

\* _normalize without lines 131-133: the (A_ub, b_ub) pair is not checked.
NormalizeErrorWithoutUbPair(prob) ==
    LET n == Len(prob.c) IN
    IF sense_of(prob) \notin {"min", "max"}
    THEN "problem['sense'] must be 'min' or 'max'."
    ELSE IF Len(integ_in(prob)) # n
    THEN "len(integrality) must match len(c)."
    ELSE IF \E j \in 1..n : integ_in(prob)[j] \notin {"B", "I", NoneTok, "C"}
    THEN "Unknown integrality token"
    ELSE IF prob.bounds # None /\ Len(prob.bounds[1]) # n
    THEN "len(bounds) must match len(c)."
    ELSE IF Len(names_of(prob)) # n
    THEN "len(var_names) must match len(c)."
    ELSE IF (prob.A_eq = None) # (prob.b_eq = None)
    THEN "A_eq and b_eq must be both present or both absent."
    ELSE ""

\* The message of the first check of _normalize that fails, "" if none does.
NormalizeError(prob) ==
    LET n == Len(prob.c) IN
    IF sense_of(prob) \notin {"min", "max"}
    THEN "problem['sense'] must be 'min' or 'max'."
    ELSE IF Len(integ_in(prob)) # n
    THEN "len(integrality) must match len(c)."
    ELSE IF \E j \in 1..n : integ_in(prob)[j] \notin {"B", "I", NoneTok, "C"}
    THEN "Unknown integrality token"
    ELSE IF prob.bounds # None /\ Len(prob.bounds[1]) # n
    THEN "len(bounds) must match len(c)."
    ELSE IF Len(names_of(prob)) # n
    THEN "len(var_names) must match len(c)."
    ELSE IF (prob.A_eq = None) # (prob.b_eq = None)
    THEN "A_eq and b_eq must be both present or both absent."
    ELSE IF (prob.A_ub = None) # (prob.b_ub = None)
    THEN "A_ub and b_ub must be both present or both absent."
    ELSE ""

\* Lines 135-143: the dict _normalize returns.
Normalized(prob) ==
    LET n == Len(prob.c) IN
    [sense |-> sense_of(prob),
     c |-> prob.c,
     n |-> n,
     integrality |-> [j \in 1..n |-> IF integ_in(prob)[j] = "C" THEN NoneTok
                                     ELSE integ_in(prob)[j]],
     bounds |-> IF prob.bounds = None
                THEN Vec(n, <<Some(Whole(0)), None>>)
                ELSE prob.bounds[1],
     var_names |-> names_of(prob),
     A_eq |-> prob.A_eq,
     b_eq |-> prob.b_eq,
     A_ub |-> prob.A_ub,
     b_ub |-> prob.b_ub,
     obj_offset |-> IF prob.obj_offset = None THEN Whole(0)
                    ELSE prob.obj_offset[1]]

\* ---- routing, lines 246-278 ----
MatrixIsInteger(A, b) ==
    /\ \A r \in 1..Len(A) : \A j \in 1..Len(A[r]) : is_int_like(A[r][j])
    /\ \A r \in 1..Len(b) : is_int_like(b[r])

\* Lines 250-270 without lines 255-257: the bounds are not looked at.
all_data_integer_skipping_bounds(Q) ==
    /\ \A j \in 1..Len(Q.c) : is_int_like(Q.c[j])
    /\ Q.A_eq # None => MatrixIsInteger(Q.A_eq[1], Q.b_eq[1])
    /\ Q.A_ub # None => MatrixIsInteger(Q.A_ub[1], Q.b_ub[1])

\* Lines 250-270
all_data_integer(Q) ==
    /\ \A j \in 1..Len(Q.c) : is_int_like(Q.c[j])
    /\ \A j \in 1..Len(Q.bounds) :
          /\ Q.bounds[j][1] # None => is_int_like(Q.bounds[j][1][1])
          /\ Q.bounds[j][2] # None => is_int_like(Q.bounds[j][2][1])
    /\ Q.A_eq # None => MatrixIsInteger(Q.A_eq[1], Q.b_eq[1])
    /\ Q.A_ub # None => MatrixIsInteger(Q.A_ub[1], Q.b_ub[1])

\* Lines 272-278
needs_cbc(Q) ==
    \/ \E j \in 1..Len(Q.integrality) : Q.integrality[j] \notin {"B", "I"}
    \/ ~all_data_integer(Q)

\* ---- _build_model, lines 153-198 ----
FirstError(msgs) ==
    IF \A k \in 1..Len(msgs) : msgs[k] = "" THEN ""
    ELSE msgs[CHOOSE k \in 1..Len(msgs) :
                 msgs[k] # "" /\ \A l \in 1..(k - 1) : msgs[l] = ""]

lb_or_zero(Q, j) ==
    IF Q.bounds[j][1] = None THEN Whole(0) ELSE Q.bounds[j][1][1]

\* Lines 159-171 for variable j (1-based)
VarError(Q, j) ==
    IF Q.integrality[j] = "B" THEN ""
    ELSE IF as_int_fails(lb_or_zero(Q, j))
    THEN "lb must be integer-like for CP-SAT"
    ELSE IF Q.bounds[j][2] # None /\ as_int_fails(Q.bounds[j][2][1])
    THEN "ub must be integer-like for CP-SAT"
    ELSE IF as_int(lb_or_zero(Q, j)) >
              (IF Q.bounds[j][2] = None THEN CpSatDefaultUpper
               ELSE as_int(Q.bounds[j][2][1]))
    THEN "Invalid bounds"
    ELSE ""

\* Lines 175-181 / 185-191 for one matrix and its right-hand side
RowsError(A, b, n) ==
    IF Len(A) # Len(b) THEN "len(A) must match len(b)."
    ELSE FirstError([r \in 1..Len(A) |->
            IF Len(A[r]) # n THEN "row length must match n."
            ELSE IF \E j \in 1..n : as_int_fails(A[r][j])
            THEN "A must be integer-like for CP-SAT"
            ELSE IF as_int_fails(b[r])
            THEN "b must be integer-like for CP-SAT"
            ELSE ""])

\* The message of the first failing step of _build_model, "" if none fails.
BuildError(Q) ==
    FirstError(
        [j \in 1..Q.n |-> VarError(Q, j)]
        \o <<IF Q.A_eq # None THEN RowsError(Q.A_eq[1], Q.b_eq[1], Q.n) ELSE "">>
        \o <<IF Q.A_ub # None THEN RowsError(Q.A_ub[1], Q.b_ub[1], Q.n) ELSE "">>
        \o [j \in 1..Q.n |-> IF as_int_fails(Q.c[j])
                             THEN "c must be integer-like for CP-SAT" ELSE ""])

IntRows(A, b) ==
    [r \in 1..Len(A) |-> [coeffs |-> [j \in 1..Len(A[r]) |-> as_int(A[r][j])],
                          rhs |-> as_int(b[r])]]

\* The CP-SAT model _build_model returns: integer domains and coefficients.
CpSatModel(Q) ==
    [vars |-> [j \in 1..Q.n |->
                 IF Q.integrality[j] = "B"
                 THEN [name |-> Q.var_names[j], lo |-> 0, hi |-> 1]
                 ELSE [name |-> Q.var_names[j],
                       lo |-> as_int(lb_or_zero(Q, j)),
                       hi |-> IF Q.bounds[j][2] = None THEN CpSatDefaultUpper
                              ELSE as_int(Q.bounds[j][2][1])]],
     eq |-> IF Q.A_eq # None THEN IntRows(Q.A_eq[1], Q.b_eq[1]) ELSE <<>>,
     ub |-> IF Q.A_ub # None THEN IntRows(Q.A_ub[1], Q.b_ub[1]) ELSE <<>>,
     obj |-> [j \in 1..Q.n |-> as_int(Q.c[j])],
     sense |-> Q.sense]

\* ---- _solve_mip_cbc_mixed, lines 34-72 ----
\* Lines 42-53: the domain of variable j; an upper bound None is +infinity.
CbcVar(Q, j) ==
    LET lb == lb_or_zero(Q, j)
        ubv == Q.bounds[j][2]
        integ == Q.integrality[j]
    IN  [name |-> Q.var_names[j],
         lb |-> lb,
         ub |-> IF integ = "B" /\ (ubv = None \/ LessEq(Whole(1), ubv[1]))
                THEN Some(Whole(1)) ELSE ubv,
         integer |-> integ \in {"B", "I"}]

\* zip(A, b) and zip(row, xs): the shorter of the two decides the length.
ZipRows(A, b, n) ==
    [r \in 1..Min(Len(A), Len(b)) |->
        [coeffs |-> SubSeq(A[r], 1, Min(Len(A[r]), n)), rhs |-> b[r]]]

CbcModel(Q) ==
    [vars |-> [j \in 1..Len(Q.bounds) |-> CbcVar(Q, j)],
     eq |-> IF Q.A_eq # None /\ Q.b_eq # None
            THEN ZipRows(Q.A_eq[1], Q.b_eq[1], Len(Q.bounds)) ELSE <<>>,
     ub |-> IF Q.A_ub # None /\ Q.b_ub # None
            THEN ZipRows(Q.A_ub[1], Q.b_ub[1], Len(Q.bounds)) ELSE <<>>,
     obj |-> SubSeq(Q.c, 1, Min(Len(Q.c), Len(Q.bounds))),
     sense |-> Q.sense]

\* ---- the backends ----
\* pywraplp.Solver result statuses
CbcStatusSet ==
    {"OPTIMAL", "FEASIBLE", "INFEASIBLE", "UNBOUNDED", "ABNORMAL",
     "MODEL_INVALID", "NOT_SOLVED"}

\* cp_model statuses
CpSatStatusSet == {"UNKNOWN", "MODEL_INVALID", "FEASIBLE", "INFEASIBLE", "OPTIMAL"}

\* A backend that stops with a solution reports an objective and one value
\* per variable; what they are is the backend's business.
ObjectiveValueSet == {Whole(3), Whole(-1)}

SolutionSet(n) == {[j \in 1..n |-> Whole(j)], [j \in 1..n |-> Whole(0)]}

\* Lines 76-83 with a branch that passes FEASIBLE on under its own name.
StatusOfCbcKeepingFeasible(res) ==
    IF res = "OPTIMAL" THEN "Optimal"
    ELSE IF res = "INFEASIBLE" THEN "Infeasible"
    ELSE IF res = "UNBOUNDED" THEN "Unbounded"
    ELSE IF res = "FEASIBLE" THEN "Feasible"
    ELSE "NotSolved"

\* Lines 76-83
StatusOfCbc(res) ==
    IF res = "OPTIMAL" THEN "Optimal"
    ELSE IF res = "INFEASIBLE" THEN "Infeasible"
    ELSE IF res = "UNBOUNDED" THEN "Unbounded"
    ELSE "NotSolved"

\* Lines 214-219 with FEASIBLE taken for OPTIMAL.
StatusOfCpSatTakingFeasible(code) ==
    IF code \in {"OPTIMAL", "FEASIBLE"} THEN "Optimal"
    ELSE IF code = "INFEASIBLE" THEN "Infeasible"
    ELSE "NotSolved"

\* Lines 214-219
StatusOfCpSat(code) ==
    IF code = "OPTIMAL" THEN "Optimal"
    ELSE IF code = "INFEASIBLE" THEN "Infeasible"
    ELSE "NotSolved"

\* {names[i]: vals[i] for i in range(n)}: a later entry replaces an earlier
\* one under the same name.
DictOf(names, vals) ==
    IF names = <<>> THEN <<>>
    ELSE [nm \in Range(names) |->
            vals[CHOOSE k \in 1..Len(names) :
                    names[k] = nm /\ \A l \in (k + 1)..Len(names) : names[l] # nm]]

\* Lines 85-93: what the CBC path returns.
CbcResult(Q, res, obj, xs) ==
    [status |-> StatusOfCbc(res),
     objective |-> IF StatusOfCbc(res) = "Optimal" THEN Some(obj[1]) ELSE None,
     assignment |-> IF StatusOfCbc(res) = "Optimal"
                    THEN DictOf(Q.var_names, xs[1]) ELSE <<>>,
     extras |-> [result_status |-> res]]

\* Lines 211-244: what the CP-SAT path returns.
pack_result(Q, code, obj, xs) ==
    [status |-> StatusOfCpSat(code),
     objective |-> IF StatusOfCpSat(code) = "Optimal"
                   THEN Some(AddNum(obj[1], Q.obj_offset)) ELSE None,
     assignment |-> IF StatusOfCpSat(code) = "Optimal"
                    THEN DictOf(Q.var_names, xs[1]) ELSE <<>>,
     extras |-> [status_code |-> code]]

\* ---- the calls under study ----
UnitBounds == <<Some(Whole(0)), Some(Whole(1))>>

UserNames(k) == [j \in 1..k |-> <<"v", j>>]

\* Problems that differ in which keys are present and in their lengths.
StructureFamily(n) ==
    [sense : {None, Some(""), Some("min"), Some("MAX"), Some("foo")},
     c : {Vec(n, Whole(1))},
     integrality : {None} \cup
        {Some(Vec(k, t)) : k \in {n, n + 1}, t \in {"B", "I", "C", NoneTok, "X"}},
     bounds : {None, Some(Vec(n, UnitBounds)), Some(Vec(n + 1, UnitBounds)),
               Some(Vec(n, <<Some(Whole(1)), Some(Whole(0))>>))},
     var_names : {None, Some(<<>>), Some(UserNames(n)), Some(UserNames(n + 1)),
                  Some(Vec(n, <<"v", 1>>))},
     A_eq : {None, Some(<<Vec(n, Whole(1))>>)},
     b_eq : {None, Some(<<Whole(1)>>)},
     A_ub : {None, Some(<<Vec(n, Whole(1))>>)},
     b_ub : {None, Some(<<Whole(1)>>)},
     obj_offset : {None}]

\* An integer, two values next to an integer (inside and outside 1e-9), 0.5.
CoefSet == {Whole(1), Num(2, 1), Num(2, 3), Num(0, Half)}

BoundsOptions(n) ==
    {None,
     Some(Vec(n, UnitBounds)),
     Some(Vec(n, <<None, None>>)),
     Some([j \in 1..n |-> IF j = 1 THEN <<Some(Num(0, Half)), None>>
                          ELSE UnitBounds]),
     Some([j \in 1..n |-> IF j = n THEN <<Some(Whole(0)), Some(Num(1, Half))>>
                          ELSE UnitBounds]),
     Some(Vec(n, <<Some(Whole(1)), Some(Whole(1))>>)),
     Some(Vec(n, <<Some(Whole(-1)), Some(Whole(1))>>))}

\* Well-formed problems that differ in their variables.
VariableFamily(n) ==
    [sense : {Some("max")},
     c : [1..n -> CoefSet],
     integrality : {Some(t) : t \in [1..n -> {"B", "I", NoneTok}]},
     bounds : BoundsOptions(n),
     var_names : {None},
     A_eq : {None},
     b_eq : {None},
     A_ub : {None},
     b_ub : {None},
     obj_offset : {None}]

\* A matrix with its right-hand side: absent, integer, with a coefficient
\* 0.5, with a right-hand side off an integer by 1.5e-9.
PairOptions(n) ==
    {[A |-> None, b |-> None],
     [A |-> Some(<<Vec(n, Whole(1))>>), b |-> Some(<<Whole(1)>>)],
     [A |-> Some(<<[Vec(n, Whole(1)) EXCEPT ![1] = Num(0, Half)]>>),
      b |-> Some(<<Whole(1)>>)],
     [A |-> Some(<<Vec(n, Whole(1))>>), b |-> Some(<<Num(1, 3)>>)]}

\* Well-formed all-binary or all-integer problems that differ in their
\* constraints, in one objective coefficient and in the objective offset.
ConstraintFamily(n) ==
    {[sense |-> Some("min"),
      c |-> cc,
      integrality |-> Some(Vec(n, t)),
      bounds |-> Some(Vec(n, UnitBounds)),
      var_names |-> Some(UserNames(n)),
      A_eq |-> e.A,
      b_eq |-> e.b,
      A_ub |-> u.A,
      b_ub |-> u.b,
      obj_offset |-> o] :
        cc \in {Vec(n, Whole(1)), [Vec(n, Whole(1)) EXCEPT ![1] = Num(0, Half)]},
        t \in {"B", "I"},
        e \in PairOptions(n),
        u \in PairOptions(n),
        o \in {None, Some(Whole(2)), Some(Num(0, Half))}}

\* A matrix with its right-hand side whose shapes may disagree: a row shorter
\* or longer than n, more rows than right-hand sides, fewer rows than
\* right-hand sides.
RaggedPairOptions(n) ==
    {[A |-> None, b |-> None],
     [A |-> Some(<<Vec(n, Whole(1))>>), b |-> Some(<<Whole(1)>>)],
     [A |-> Some(<<Vec(n - 1, Whole(1))>>), b |-> Some(<<Whole(1)>>)],
     [A |-> Some(<<Vec(n + 1, Whole(1))>>), b |-> Some(<<Whole(1)>>)],
     [A |-> Some(<<Vec(n, Whole(1)), Vec(n, Whole(1))>>), b |-> Some(<<Whole(1)>>)],
     [A |-> Some(<<Vec(n, Whole(1))>>), b |-> Some(<<Whole(1), Whole(1)>>)]}

\* All-integer or all-continuous problems with integer data that differ in
\* the shapes of their constraint matrices.
RaggedFamily(n) ==
    {[sense |-> Some("min"),
      c |-> Vec(n, Whole(1)),
      integrality |-> Some(Vec(n, t)),
      bounds |-> Some(Vec(n, UnitBounds)),
      var_names |-> None,
      A_eq |-> e.A,
      b_eq |-> e.b,
      A_ub |-> u.A,
      b_ub |-> u.b,
      obj_offset |-> None] :
        t \in {"I", NoneTok},
        e \in RaggedPairOptions(n),
        u \in RaggedPairOptions(n)}

MilpInit ==
    /\ mpc = "start"
    /\ problem \in UNION {StructureFamily(n) : n \in 0..MaxVars}
                   \cup UNION {VariableFamily(n) : n \in 1..MaxVars}
                   \cup UNION {ConstraintFamily(n) : n \in 1..MaxVars}
                   \cup UNION {RaggedFamily(n) : n \in 1..MaxVars}
    /\ P = None
    /\ backend = "none"
    /\ model = None
    /\ status_code = None
    /\ backend_obj = None
    /\ backend_x = None
    /\ result = None
    /\ merror = ""
    /\ KnapIdle
    /\ LpIdle
    /\ BurkIdle
    /\ SoluIdle
    /\ FetchIdle

\* Line 12: _normalize raises.
MilpNormalizeRaise ==
    /\ UNCHANGED milpOthers
    /\ mpc = "start"
    /\ NormalizeError(problem) # ""
    /\ merror' = NormalizeError(problem)
    /\ mpc' = "raised"
    /\ UNCHANGED <<problem, P, backend, model, status_code, backend_obj,
                   backend_x, result>>

\* Line 12: _normalize returns P.
MilpNormalize ==
    /\ UNCHANGED milpOthers
    /\ mpc = "start"
    /\ NormalizeError(problem) = ""
    /\ P' = Some(Normalized(problem))
    /\ mpc' = "normalized"
    /\ UNCHANGED <<problem, backend, model, status_code, backend_obj,
                   backend_x, result, merror>>

\* Lines 15-16: the problem goes to CBC.
MilpRouteCbc ==
    /\ UNCHANGED milpOthers
    /\ mpc = "normalized"
    /\ needs_cbc(P[1])
    /\ backend' = "cbc"
    /\ mpc' = "cbc_create"
    /\ UNCHANGED <<problem, P, model, status_code, backend_obj, backend_x,
                   result, merror>>

\* Lines 18-19: the problem goes to CP-SAT.
MilpRouteCpSat ==
    /\ UNCHANGED milpOthers
    /\ mpc = "normalized"
    /\ ~needs_cbc(P[1])
    /\ backend' = "cpsat"
    /\ mpc' = "cpsat_build"
    /\ UNCHANGED <<problem, P, model, status_code, backend_obj, backend_x,
                   result, merror>>

\* Lines 27-29 without the return: the missing solver is used all the same.
MilpCbcUnavailableIgnored ==
    /\ UNCHANGED milpOthers
    /\ mpc = "cbc_create"
    /\ mpc' = "cbc_solve"
    /\ UNCHANGED <<problem, P, backend, model, status_code, backend_obj,
                   backend_x, result, merror>>

\* Lines 27-29: CreateSolver("CBC") returned None.
MilpCbcUnavailable ==
    /\ UNCHANGED milpOthers
    /\ mpc = "cbc_create"
    /\ result' = Some([status |-> "NotSolved",
                       objective |-> None,
                       assignment |-> <<>>,
                       extras |-> [error |-> "CBC solver not available"]])
    /\ mpc' = "returned"
    /\ UNCHANGED <<problem, P, backend, model, status_code, backend_obj,
                   backend_x, merror>>

\* Lines 27-72: the solver exists; variables, constraints, objective.
MilpCbcTranslate ==
    /\ UNCHANGED milpOthers
    /\ mpc = "cbc_create"
    /\ model' = Some(CbcModel(P[1]))
    /\ mpc' = "cbc_solve"
    /\ UNCHANGED <<problem, P, backend, status_code, backend_obj, backend_x,
                   result, merror>>

\* Line 74: solver.Solve(), once.
MilpCbcSolve ==
    /\ UNCHANGED milpOthers
    /\ mpc = "cbc_solve"
    /\ \E res \in CbcStatusSet :
          /\ status_code' = Some(res)
          /\ IF res \in {"OPTIMAL", "FEASIBLE"}
             THEN /\ backend_obj' \in {Some(v) : v \in ObjectiveValueSet}
                  /\ backend_x' \in {Some(x) : x \in SolutionSet(P[1].n)}
             ELSE UNCHANGED <<backend_obj, backend_x>>
    /\ mpc' = "cbc_pack"
    /\ UNCHANGED <<problem, P, backend, model, result, merror>>

\* Lines 76-93 with a retry: a status other than OPTIMAL sends the call back
\* to line 74.
MilpCbcReturnOrRetry ==
    /\ UNCHANGED milpOthers
    /\ mpc = "cbc_pack"
    /\ IF status_code[1] = "OPTIMAL"
       THEN /\ result' = Some(CbcResult(P[1], status_code[1], backend_obj,
                                        backend_x))
            /\ mpc' = "returned"
       ELSE /\ result' = result
            /\ mpc' = "cbc_solve"
    /\ UNCHANGED <<problem, P, backend, model, status_code, backend_obj,
                   backend_x, merror>>

\* Lines 76-93: the result of the CBC path.
MilpCbcReturn ==
    /\ UNCHANGED milpOthers
    /\ mpc = "cbc_pack"
    /\ result' = Some(CbcResult(P[1], status_code[1], backend_obj, backend_x))
    /\ mpc' = "returned"
    /\ UNCHANGED <<problem, P, backend, model, status_code, backend_obj,
                   backend_x, merror>>

\* Line 19: _build_model raises.
MilpBuildRaise ==
    /\ UNCHANGED milpOthers
    /\ mpc = "cpsat_build"
    /\ BuildError(P[1]) # ""
    /\ merror' = BuildError(P[1])
    /\ mpc' = "raised"
    /\ UNCHANGED <<problem, P, backend, model, status_code, backend_obj,
                   backend_x, result>>

\* Line 19: _build_model returns the model.
MilpBuildModel ==
    /\ UNCHANGED milpOthers
    /\ mpc = "cpsat_build"
    /\ BuildError(P[1]) = ""
    /\ model' = Some(CpSatModel(P[1]))
    /\ mpc' = "cpsat_solve"
    /\ UNCHANGED <<problem, P, backend, status_code, backend_obj, backend_x,
                   result, merror>>

\* Line 20, lines 201-208: solver.Solve(model), once.
MilpCpSatSolve ==
    /\ UNCHANGED milpOthers
    /\ mpc = "cpsat_solve"
    /\ \E code \in CpSatStatusSet :
          /\ status_code' = Some(code)
          /\ IF code \in {"OPTIMAL", "FEASIBLE"}
             THEN /\ backend_obj' \in {Some(v) : v \in ObjectiveValueSet}
                  /\ backend_x' \in {Some(x) : x \in SolutionSet(P[1].n)}
             ELSE UNCHANGED <<backend_obj, backend_x>>
    /\ mpc' = "cpsat_pack"
    /\ UNCHANGED <<problem, P, backend, model, result, merror>>

\* Line 21: _pack_result.
MilpPackResult ==
    /\ UNCHANGED milpOthers
    /\ mpc = "cpsat_pack"
    /\ result' = Some(pack_result(P[1], status_code[1], backend_obj, backend_x))
    /\ mpc' = "returned"
    /\ UNCHANGED <<problem, P, backend, model, status_code, backend_obj,
                   backend_x, merror>>

MilpNext ==
    \/ MilpNormalizeRaise
    \/ MilpNormalize
    \/ MilpRouteCbc
    \/ MilpRouteCpSat
    \/ MilpCbcUnavailable
    \/ MilpCbcTranslate
    \/ MilpCbcSolve
    \/ MilpCbcReturn
    \/ MilpBuildRaise
    \/ MilpBuildModel
    \/ MilpCpSatSolve
    \/ MilpPackResult

SpecMilp == MilpInit /\ [][MilpNext]_vars

(***************************************************************************)
(* Properties of solve_milp.                                               *)
(***************************************************************************)
\* x differs from the nearest integer by more than 1e-9.
FarFromInteger(x) == Abs(x.f) > Tol

SomeEntryFarFromInteger(rows) ==
    \E r \in 1..Len(rows) : \E j \in 1..Len(rows[r]) : FarFromInteger(rows[r][j])

\* Some variable of the call is continuous: its marker is neither B nor I
\* (no marker at all makes every variable continuous).
SomeVariableContinuous ==
    IF problem.integrality = None THEN Len(problem.c) > 0
    ELSE \E j \in 1..Len(problem.integrality[1]) :
            problem.integrality[1][j] \notin {"B", "I"}

\* Some objective coefficient, present bound, matrix coefficient or
\* right-hand side of the call is not integer-valued within 1e-9.
SomeDataFarFromInteger ==
    \/ \E j \in 1..Len(problem.c) : FarFromInteger(problem.c[j])
    \/ /\ problem.bounds # None
       /\ \E j \in 1..Len(problem.bounds[1]) : \E side \in {1, 2} :
             /\ problem.bounds[1][j][side] # None
             /\ FarFromInteger(problem.bounds[1][j][side][1])
    \/ problem.A_eq # None /\ SomeEntryFarFromInteger(problem.A_eq[1])
    \/ problem.b_eq # None /\ SomeEntryFarFromInteger(<<problem.b_eq[1]>>)
    \/ problem.A_ub # None /\ SomeEntryFarFromInteger(problem.A_ub[1])
    \/ problem.b_ub # None /\ SomeEntryFarFromInteger(<<problem.b_ub[1]>>)

\* C7: a normalized problem goes to CBC exactly when some variable is
\* continuous or some datum is not integer-valued within 1e-9, and to CP-SAT
\* otherwise.
C7_RoutingCriterion ==
    mpc \notin {"start", "normalized"} /\ P # None =>
        /\ backend \in {"cbc", "cpsat"}
        /\ backend = "cbc" <=> (SomeVariableContinuous \/ SomeDataFarFromInteger)

\* C7 witness: an all-binary problem whose only non-integer datum is one
\* objective coefficient 0.5 was sent to CBC.
C7_Witness ==
    /\ backend = "cbc"
    /\ \A j \in 1..P[1].n : P[1].integrality[j] = "B"
    /\ P[1].c[1] = Num(0, Half)
    /\ \A j \in 2..P[1].n : P[1].c[j] = Whole(1)
    /\ P[1].A_eq = None /\ P[1].A_ub = None

\* C8 (as claimed): an Optimal result carries the backend's objective value
\* plus obj_offset, on either path.
C8_OptimalObjectiveAddsOffset ==
    (mpc = "returned" /\ result[1].status = "Optimal") =>
        result[1].objective = Some(AddNum(backend_obj[1], P[1].obj_offset))

\* C8, the part the code does satisfy: the CP-SAT path adds obj_offset.
C8_CpSatObjectiveAddsOffset ==
    (mpc = "returned" /\ backend = "cpsat" /\ result[1].status = "Optimal") =>
        result[1].objective = Some(AddNum(backend_obj[1], P[1].obj_offset))

\* C9: every returned result has one of the four statuses, an objective
\* exactly when Optimal, and an empty assignment unless Optimal.
C9_ResultShape ==
    mpc = "returned" =>
        /\ result[1].status \in {"Optimal", "Infeasible", "Unbounded", "NotSolved"}
        /\ result[1].objective # None <=> result[1].status = "Optimal"
        /\ result[1].status # "Optimal" => DOMAIN result[1].assignment = {}

\* C9 witness: the backend stopped with a feasible, unproved solution and the
\* call returned NotSolved.
C9_Witness ==
    /\ mpc = "returned"
    /\ status_code = Some("FEASIBLE")
    /\ backend_x # None
    /\ result[1].status = "NotSolved"

PairHalfPresent ==
    \/ (problem.A_eq = None) # (problem.b_eq = None)
    \/ (problem.A_ub = None) # (problem.b_ub = None)

\* The conditions the claim lists: a sense that is not min/max, a supplied
\* bounds, integrality or var_names of the wrong length, a half-present pair.
RejectedAsClaimed ==
    \/ problem.sense # None /\ Lower(problem.sense[1]) \notin {"min", "max"}
    \/ problem.bounds # None /\ Len(problem.bounds[1]) # Len(problem.c)
    \/ problem.integrality # None /\ Len(problem.integrality[1]) # Len(problem.c)
    \/ problem.var_names # None /\ Len(problem.var_names[1]) # Len(problem.c)
    \/ PairHalfPresent

\* The conditions under which the code rejects: an empty sense counts as
\* absent, an empty var_names counts as absent, and an integrality marker
\* outside B, I, C, None is rejected too.
RejectedByCode ==
    \/ /\ problem.sense # None
       /\ problem.sense[1] # ""
       /\ Lower(problem.sense[1]) \notin {"min", "max"}
    \/ problem.bounds # None /\ Len(problem.bounds[1]) # Len(problem.c)
    \/ problem.integrality # None /\ Len(problem.integrality[1]) # Len(problem.c)
    \/ /\ problem.integrality # None
       /\ \E j \in 1..Len(problem.integrality[1]) :
             problem.integrality[1][j] \notin {"B", "I", "C", NoneTok}
    \/ /\ problem.var_names # None
       /\ problem.var_names[1] # <<>>
       /\ Len(problem.var_names[1]) # Len(problem.c)
    \/ PairHalfPresent

\* Normalization raised: nothing was normalized, chosen or built.
RaisedInNormalize ==
    /\ mpc = "raised"
    /\ P = None
    /\ backend = "none"
    /\ model = None
    /\ status_code = None

\* P is the call's problem with the defaults of section 3 filled in.
DefaultsFilled ==
    /\ P # None
    /\ P[1].n = Len(problem.c)
    /\ P[1].sense = IF problem.sense = None \/ problem.sense[1] = "" THEN "min"
                    ELSE Lower(problem.sense[1])
    /\ P[1].sense \in {"min", "max"}
    /\ P[1].obj_offset = IF problem.obj_offset = None THEN Whole(0)
                         ELSE problem.obj_offset[1]
    /\ P[1].bounds = IF problem.bounds = None
                     THEN [j \in 1..Len(problem.c) |-> <<Some(Whole(0)), None>>]
                     ELSE problem.bounds[1]
    /\ \A j \in 1..Len(problem.c) :
          P[1].integrality[j] =
             IF problem.integrality = None THEN NoneTok
             ELSE IF problem.integrality[1][j] = "C" THEN NoneTok
             ELSE problem.integrality[1][j]
    /\ P[1].var_names =
          IF problem.var_names = None \/ problem.var_names[1] = <<>>
          THEN [j \in 1..Len(problem.c) |-> <<"x", j - 1>>]
          ELSE problem.var_names[1]
    /\ Len(P[1].bounds) = P[1].n
    /\ Len(P[1].integrality) = P[1].n
    /\ Len(P[1].var_names) = P[1].n

\* C10 (as claimed): normalization raises, before a backend is chosen,
\* exactly under the listed conditions, and otherwise returns the problem
\* with the defaults filled in.
C10_NormalizeRejectsAsClaimed ==
    mpc # "start" =>
        IF RejectedAsClaimed THEN RaisedInNormalize ELSE DefaultsFilled

\* C10 (amended): the same with the conditions of the code: an empty sense
\* and an empty var_names are treated as absent, and a marker outside
\* B, I, C, None is rejected as well.
C10_NormalizeRejects ==
    mpc # "start" =>
        IF RejectedByCode THEN RaisedInNormalize ELSE DefaultsFilled

\* C10 witness: a call with one half of the (A_ub, b_ub) pair was rejected,
\* and nothing else is wrong with it.
C10_Witness ==
    /\ RaisedInNormalize
    /\ (problem.A_ub = None) # (problem.b_ub = None)
    /\ (problem.A_eq = None) = (problem.b_eq = None)
    /\ problem.sense = Some("min")
    /\ problem.integrality = None /\ problem.bounds = None
    /\ problem.var_names = None

\* A present pair (A, b) is malformed: a row whose length is not n, or a
\* number of rows that is not the number of right-hand sides.
PairMalformed(A, b) ==
    /\ A # None
    /\ b # None
    /\ \/ Len(A[1]) # Len(b[1])
       \/ \E r \in 1..Len(A[1]) : Len(A[1][r]) # Len(problem.c)

MalformedStructure ==
    \/ PairMalformed(problem.A_eq, problem.b_eq)
    \/ PairMalformed(problem.A_ub, problem.b_ub)

\* No backend solve was invoked and nothing was returned.
NothingSolved ==
    /\ status_code = None
    /\ backend_obj = None
    /\ backend_x = None
    /\ result = None

\* C11 (as claimed): a problem with a malformed constraint structure never
\* gets as far as a translated model or a result, on either path: the call
\* raises.
C11_MalformedStructureRaises ==
    MalformedStructure =>
        /\ NothingSolved
        /\ mpc \in {"start", "normalized", "cbc_create", "cpsat_build", "raised"}

\* C11, the part the code does satisfy: on the CP-SAT path a malformed
\* constraint structure raises in _build_model.
C11_CpSatMalformedStructureRaises ==
    (MalformedStructure /\ backend = "cpsat") =>
        /\ NothingSolved
        /\ mpc \in {"cpsat_build", "raised"}

\* The call returned although the backend it selected was never constructed.
ReturnedWithoutBackend ==
    /\ mpc = "returned"
    /\ backend # "none"
    /\ model = None

\* C12: when the selected backend cannot be constructed the call does not
\* raise; it returns NotSolved with no objective, an empty assignment and an
\* explanatory message in the diagnostics, and no solve was attempted.  The
\* only construction the code can see fail is CreateSolver("CBC").
C12_UnavailableBackendNotSolved ==
    /\ ReturnedWithoutBackend =>
          /\ result[1].status = "NotSolved"
          /\ result[1].objective = None
          /\ DOMAIN result[1].assignment = {}
          /\ "error" \in DOMAIN result[1].extras
          /\ result[1].extras.error # ""
          /\ status_code = None
          /\ backend_obj = None
          /\ backend_x = None
          /\ merror = ""
    /\ (mpc \in {"cbc_solve", "cbc_pack"} \/ status_code # None) => model # None
    /\ backend = "cbc" => mpc # "raised"

\* C12 witness: a problem with a continuous variable was routed to CBC, CBC
\* was not available, and the call returned.
C12_Witness ==
    /\ ReturnedWithoutBackend
    /\ backend = "cbc"
    /\ P[1].n >= 1
    /\ result[1].status = "NotSolved"

(***************************************************************************)
(*                        load_knapsack_burkardt                           *)
(***************************************************************************)
burkOthers == <<knapVars, lpVars, milpVars, soluVars, fetchVars>>

\* v < 0 for a float v
IsNegative(v) == v.i < 0 \/ (v.i = 0 /\ v.f < 0)

\* Lines 12-18: the message _read_single_int raises with, "" if it returns.
read_single_int_error(vals) ==
    IF Len(vals) # 1 THEN "Expected a single number"
    ELSE IF RoundDistance(vals[1]) > Tol THEN "Capacity must be an integer"
    ELSE ""

\* Line 19
read_single_int(vals) == Round(vals[1])

\* Line 47 without "w < 0": only the distance to an integer is tested.
weight_rejected_unless_negative(v) == RoundDistance(v) > Tol

\* Line 47: the weight is rejected.
weight_rejected(v) == IsNegative(v) \/ RoundDistance(v) > Tol

\* Lines 45-49: the weights cast before the loop stops, at the first
\* rejected weight or at the end of the list.
CastWeights(ws) ==
    LET bad == {j \in 1..Len(ws) : weight_rejected(ws[j])}
        stop == IF bad = {} THEN Len(ws) + 1
                ELSE CHOOSE j \in bad : \A l \in bad : j <= l
    IN  [j \in 1..(stop - 1) |-> Round(ws[j])]

\* The capacity file: one number (an integer, a negative integer, numbers
\* within and beyond 1e-9 of an integer, 1.5), or another number of lines.
CapacityFileSet ==
    {<<v>> : v \in {Whole(0), Whole(2), Whole(-1), Num(2, 1), Num(2, -2),
                    Num(2, 3), Num(1, Half)}}
    \cup {Vec(k, Whole(2)) : k \in 0..MaxLines}

WeightFileValues ==
    {Whole(0), Whole(1), Num(2, 1), Num(1, 3), Whole(-1), Num(0, -1)}

BurkInit ==
    /\ bpc = "start"
    /\ c_file \in CapacityFileSet
    /\ w_file \in SeqsUpTo(WeightFileValues, MaxLines)
    /\ p_file \in {Vec(k, Num(1, Half)) : k \in 0..MaxLines}
    /\ s_file \in {None} \cup {Some(Vec(k, Whole(1))) : k \in 0..MaxLines}
    /\ bk_capacity = None
    /\ bk_weights = <<>>
    /\ instance = None
    /\ berror = ""
    /\ KnapIdle
    /\ LpIdle
    /\ MilpIdle
    /\ SoluIdle
    /\ FetchIdle

\* Line 37: _read_single_int raises.
BurkRaiseCapacity ==
    /\ UNCHANGED burkOthers
    /\ bpc = "start"
    /\ read_single_int_error(c_file) # ""
    /\ berror' = read_single_int_error(c_file)
    /\ bpc' = "raised"
    /\ UNCHANGED <<c_file, w_file, p_file, s_file, bk_capacity, bk_weights,
                   instance>>

\* Lines 37-39: the capacity is read, then the weights and the values.
BurkReadCapacity ==
    /\ UNCHANGED burkOthers
    /\ bpc = "start"
    /\ read_single_int_error(c_file) = ""
    /\ bk_capacity' = Some(read_single_int(c_file))
    /\ bpc' = "lengths"
    /\ UNCHANGED <<c_file, w_file, p_file, s_file, bk_weights, instance,
                   berror>>

\* Lines 41-42
BurkRaiseLengths ==
    /\ UNCHANGED burkOthers
    /\ bpc = "lengths"
    /\ Len(w_file) # Len(p_file)
    /\ berror' = "weights and values length mismatch"
    /\ bpc' = "raised"
    /\ UNCHANGED <<c_file, w_file, p_file, s_file, bk_capacity, bk_weights,
                   instance>>

\* Lines 45-48: the loop stops at a rejected weight.
BurkRaiseWeights ==
    /\ UNCHANGED burkOthers
    /\ bpc = "lengths"
    /\ Len(w_file) = Len(p_file)
    /\ \E j \in 1..Len(w_file) : weight_rejected(w_file[j])
    /\ bk_weights' = CastWeights(w_file)
    /\ berror' = "weights must be non-negative integers"
    /\ bpc' = "raised"
    /\ UNCHANGED <<c_file, w_file, p_file, s_file, bk_capacity, instance>>

\* Lines 45-49: every weight is cast.
BurkCastWeights ==
    /\ UNCHANGED burkOthers
    /\ bpc = "lengths"
    /\ Len(w_file) = Len(p_file)
    /\ \A j \in 1..Len(w_file) : ~weight_rejected(w_file[j])
    /\ bk_weights' = CastWeights(w_file)
    /\ bpc' = "selection"
    /\ UNCHANGED <<c_file, w_file, p_file, s_file, bk_capacity, instance,
                   berror>>

\* Lines 52-55: the selection file exists and has the wrong length.
BurkRaiseSelection ==
    /\ UNCHANGED burkOthers
    /\ bpc = "selection"
    /\ s_file # None
    /\ Len(s_file[1]) # Len(p_file)
    /\ berror' = "selection length mismatch"
    /\ bpc' = "raised"
    /\ UNCHANGED <<c_file, w_file, p_file, s_file, bk_capacity, bk_weights,
                   instance>>

\* Lines 51-64: the instance is returned.
BurkReturn ==
    /\ UNCHANGED burkOthers
    /\ bpc = "selection"
    /\ s_file # None => Len(s_file[1]) = Len(p_file)
    /\ instance' = Some([values |-> p_file,
                         weights |-> bk_weights,
                         capacity |-> bk_capacity[1],
                         opt_selection |->
                            IF s_file = None THEN None
                            ELSE Some([j \in 1..Len(s_file[1]) |->
                                          Round(s_file[1][j])])])
    /\ bpc' = "returned"
    /\ UNCHANGED <<c_file, w_file, p_file, s_file, bk_capacity, bk_weights,
                   berror>>

BurkNext ==
    \/ BurkRaiseCapacity
    \/ BurkReadCapacity
    \/ BurkRaiseLengths
    \/ BurkRaiseWeights
    \/ BurkCastWeights
    \/ BurkRaiseSelection
    \/ BurkReturn

SpecBurkardt == BurkInit /\ [][BurkNext]_vars

(***************************************************************************)
(* Properties of load_knapsack_burkardt.                                   *)
(***************************************************************************)
\* The conditions under which the loader is to fail.
BurkardtRejected ==
    \/ Len(c_file) # 1
    \/ Len(c_file) = 1 /\ FarFromInteger(c_file[1])
    \/ Len(w_file) # Len(p_file)
    \/ \E j \in 1..Len(w_file) :
          IsNegative(w_file[j]) \/ FarFromInteger(w_file[j])
    \/ s_file # None /\ Len(s_file[1]) # Len(p_file)

\* C13: the loader raises and returns nothing exactly when the capacity file
\* does not hold one integer-valued number, the weight and value lists
\* differ in length, a weight is negative or not integer-valued, or a present
\* selection file has the wrong length; otherwise it returns the instance
\* with the capacity and the weights rounded to integers.
C13_LoaderRejects ==
    /\ BurkardtRejected => bpc # "returned" /\ instance = None
    /\ ~BurkardtRejected => bpc # "raised"
    /\ bpc = "raised" => instance = None /\ berror # ""
    /\ bpc = "returned" =>
          /\ instance # None
          /\ instance[1].capacity = c_file[1].i
          /\ instance[1].weights = [j \in 1..Len(w_file) |-> w_file[j].i]
          /\ instance[1].values = p_file

\* C13 witness: a capacity and a weight that are within 1e-9 of an integer
\* without being one were rounded, with a selection file present.
C13_Witness ==
    /\ bpc = "returned"
    /\ c_file[1].f # 0
    /\ \E j \in 1..Len(w_file) : w_file[j].f # 0
    /\ s_file # None

\* C14 (as claimed): every returned instance has a non-negative integer
\* capacity and non-negative integer weights.
C14_InstanceInvariant ==
    bpc = "returned" =>
        /\ instance[1].capacity \in Nat
        /\ \A j \in 1..Len(instance[1].weights) : instance[1].weights[j] \in Nat

\* C14, the part the code does satisfy: the weights of a returned instance
\* are non-negative integers, one per value.
C14_WeightsInvariant ==
    bpc = "returned" =>
        /\ Len(instance[1].weights) = Len(instance[1].values)
        /\ \A j \in 1..Len(instance[1].weights) : instance[1].weights[j] \in Nat

(***************************************************************************)
(* Further properties of load_lpnetlib_mat.                                *)
(***************************************************************************)
\* A resolved vector whose length is not k.
WrongLength(field, k) == field # None /\ Len(field[1]) # k

\* A or c is unresolved, or c, lo or hi disagrees with the column count, or
\* rl or ru disagrees with the row count.
FileInconsistentExceptRhs ==
    \/ mat.A = None
    \/ mat.c = None
    \/ /\ mat.A # None
       /\ \/ WrongLength(mat.c, NumCols(mat))
          \/ WrongLength(mat.lo, NumCols(mat))
          \/ WrongLength(mat.hi, NumCols(mat))
          \/ WrongLength(mat.rl, NumRows(mat))
          \/ WrongLength(mat.ru, NumRows(mat))

\* The right-hand side b is resolved with a length that is not m.
RhsInconsistent == mat.A # None /\ WrongLength(mat.b, NumRows(mat))

\* C15 (as claimed): a file in which A or c is unresolved, or any resolved
\* vector (c, lo, hi against n; rl, ru, b against m) has the wrong length,
\* is never returned as a problem, whichever optional fields are present.
C15_InconsistentFileFails ==
    (FileInconsistentExceptRhs \/ RhsInconsistent) =>
        /\ lpc # "returned"
        /\ lp_problem = <<>>

\* C15, the part the code does satisfy: the same without a right-hand side
\* that comes together with rl or ru, which the code never looks at.
C15_InconsistentFileFailsUnlessRhsUnused ==
    (FileInconsistentExceptRhs \/ (RhsInconsistent /\ ~HasRowBounds(mat))) =>
        /\ lpc # "returned"
        /\ lp_problem = <<>>

(***************************************************************************)
(*                       _fetch_primary_then_aux                           *)
(***************************************************************************)
fetchOthers == <<knapVars, lpVars, milpVars, burkVars, soluVars>>

\* Lines 112-125: the alias lists load_lpnetlib_mat resolves its fields with.
AliasLists ==
    {<<"aux", "Aux", "AUX">>,
     <<"A", "a", "M", "mat">>,
     <<"c", "f", "cost", "obj", "objective">>,
     <<"b", "rhs", "beq">>,
     <<"rl", "r_l", "rowl", "bl", "lower_row", "row_lower">>,
     <<"ru", "r_u", "rowu", "bu", "upper_row", "row_upper">>,
     <<"lo", "l", "lb", "lower", "xl", "xlow">>,
     <<"hi", "u", "ub", "upper", "xu", "xupp">>,
     <<"z0", "objconst", "offset">>}

\* A container is a MATLAB struct (fields are attributes) or the dict that
\* loadmat returns (fields are keys).  The value stored under a field tells
\* where it was stored.
Containers(who, aliases) ==
    {[kind |-> k, fields |-> [a \in S |-> <<who, a>>]] :
        k \in {"struct", "dict"}, S \in SUBSET Range(aliases)}

\* The first alias of the list that the container exposes, 0 if none.
FirstExposed(container, aliases) ==
    LET hits == {k \in 1..Len(aliases) : aliases[k] \in DOMAIN container.fields}
    IN  IF hits = {} THEN 0 ELSE CHOOSE k \in hits : \A l \in hits : k <= l

\* Lines 41-52 with the loops running backwards: the last alias wins.
fetch_field_backwards(container, aliases) ==
    LET hits == {k \in 1..Len(aliases) : aliases[k] \in DOMAIN container.fields}
    IN  IF hits = {} THEN None
        ELSE Some(container.fields[aliases[CHOOSE k \in hits :
                                              \A l \in hits : k >= l]])

\* Lines 41-52: the attribute loop finds the fields of a struct; no alias is
\* an attribute of a dict, whose fields are found by the key loop.
fetch_field(container, aliases) ==
    IF container.kind = "struct"
    THEN IF FirstExposed(container, aliases) = 0 THEN None
         ELSE Some(container.fields[aliases[FirstExposed(container, aliases)]])
    ELSE IF FirstExposed(container, aliases) = 0 THEN None
         ELSE Some(container.fields[aliases[FirstExposed(container, aliases)]])

FetchInit ==
    /\ fpc = "start"
    /\ alias_names \in AliasLists
    /\ primary \in Containers("primary", alias_names)
    /\ aux \in {None} \cup {Some(a) : a \in Containers("aux", alias_names)}
    /\ fetched = None
    /\ KnapIdle
    /\ LpIdle
    /\ MilpIdle
    /\ BurkIdle
    /\ SoluIdle

\* Lines 57-60: the primary container had the field, or there is no aux.
FetchPrimary ==
    /\ UNCHANGED fetchOthers
    /\ fpc = "start"
    /\ fetch_field(primary, alias_names) # None \/ aux = None
    /\ fetched' = fetch_field(primary, alias_names)
    /\ fpc' = "done"
    /\ UNCHANGED <<primary, aux, alias_names>>

\* Lines 57-58: the primary container had none of the aliases; aux is next.
FetchMissing ==
    /\ UNCHANGED fetchOthers
    /\ fpc = "start"
    /\ fetch_field(primary, alias_names) = None
    /\ aux # None
    /\ fetched' = None
    /\ fpc' = "aux"
    /\ UNCHANGED <<primary, aux, alias_names>>

\* Lines 59-60
FetchAux ==
    /\ UNCHANGED fetchOthers
    /\ fpc = "aux"
    /\ fetched' = fetch_field(aux[1], alias_names)
    /\ fpc' = "done"
    /\ UNCHANGED <<primary, aux, alias_names>>

FetchNext ==
    \/ FetchPrimary
    \/ FetchMissing
    \/ FetchAux

SpecFetch == FetchInit /\ [][FetchNext]_vars

(***************************************************************************)
(* Properties of _fetch_primary_then_aux.                                  *)
(***************************************************************************)
\* The positions in the alias list of the aliases a container exposes.
ExposedIn(container) ==
    {k \in 1..Len(alias_names) : alias_names[k] \in DOMAIN container.fields}

Earliest(S) == CHOOSE k \in S : \A l \in S : k <= l

\* C16: the resolved value is the one the primary container stores under
\* the earliest alias it exposes; the auxiliary container is consulted only
\* when the primary exposes none, and then its earliest exposed alias wins.
C16_PrimaryThenAuxFirstAlias ==
    /\ fpc = "aux" => ExposedIn(primary) = {} /\ aux # None
    /\ fpc = "done" =>
          IF ExposedIn(primary) # {}
          THEN fetched = Some(<<"primary", alias_names[Earliest(ExposedIn(primary))]>>)
          ELSE IF aux # None /\ ExposedIn(aux[1]) # {}
          THEN fetched = Some(<<"aux", alias_names[Earliest(ExposedIn(aux[1]))]>>)
          ELSE fetched = None

\* C16 witness: the primary container exposes the second and third alias
\* only, the auxiliary one exposes the first, and the value under the
\* primary's second alias was resolved.
C16_Witness ==
    /\ fpc = "done"
    /\ ExposedIn(primary) = {2, 3}
    /\ aux # None
    /\ 1 \in ExposedIn(aux[1])
    /\ fetched = Some(<<"primary", alias_names[2]>>)

(***************************************************************************)
(*                          parse_miplib_solu                              *)
(* A line is the sequence of its whitespace-separated tokens (what          *)
(* line.split() returns; the empty sequence for a blank line), a token is   *)
(* the sequence of its characters.                                          *)
(***************************************************************************)
soluOthers == <<knapVars, lpVars, milpVars, burkVars, fetchVars>>

Uppers ==
    <<"A", "B", "C", "D", "E", "F", "G", "H", "I", "J", "K", "L", "M", "N",
      "O", "P", "Q", "R", "S", "T", "U", "V", "W", "X", "Y", "Z">>

Lowers ==
    <<"a", "b", "c", "d", "e", "f", "g", "h", "i", "j", "k", "l", "m", "n",
      "o", "p", "q", "r", "s", "t", "u", "v", "w", "x", "y", "z">>

Digits == <<"0", "1", "2", "3", "4", "5", "6", "7", "8", "9">>

\* [a-zA-Z]
IsLetter(ch) == ch \in Range(Uppers) \cup Range(Lowers)

\* \d
IsDigit(ch) == ch \in Range(Digits)

DigitValue(ch) == (CHOOSE k \in 1..10 : Digits[k] = ch) - 1

\* str.lower() on one character
lower_char(ch) ==
    IF ch \in Range(Uppers)
    THEN Lowers[CHOOSE k \in 1..26 : Uppers[k] = ch]
    ELSE ch

\* str.lower()
lower(tok) == [k \in 1..Len(tok) |-> lower_char(tok[k])]

\* Line 5
STATUS_KEYS ==
    {<<"o", "p", "t", "i", "m", "a", "l">>,
     <<"i", "n", "f", "e", "a", "s", "i", "b", "l", "e">>,
     <<"u", "n", "b", "o", "u", "n", "d", "e", "d">>,
     <<"b", "e", "s", "t">>,
     <<"f", "e", "a", "s", "i", "b", "l", "e">>,
     <<"l", "i", "m", "i", "t">>,
     <<"u", "n", "k", "n", "o", "w", "n">>}

\* Line 6 with the default of line 25: _V31_MAP.get(key, key)
V31_MAP_get(key) ==
    CASE key = <<"o", "p", "t">> -> <<"o", "p", "t", "i", "m", "a", "l">>
      [] key = <<"b", "e", "s", "t">> -> <<"b", "e", "s", "t">>
      [] key = <<"i", "n", "f">> ->
            <<"i", "n", "f", "e", "a", "s", "i", "b", "l", "e">>
      [] key = <<"u", "n", "b", "d">> ->
            <<"u", "n", "b", "o", "u", "n", "d", "e", "d">>
      [] key = <<"u", "n", "k", "n">> -> <<"u", "n", "k", "n", "o", "w", "n">>
      [] OTHER -> key

\* The number of digits of tok from position k on, up to the first
\* character that is not a digit.
DigitRun(tok, k) ==
    CHOOSE n \in 0..Len(tok) :
        /\ \A j \in k..(k + n - 1) : j <= Len(tok) /\ IsDigit(tok[j])
        /\ k + n > Len(tok) \/ ~IsDigit(tok[k + n])

\* 1 if tok has a sign at position k, else 0.
SignAt(tok, k) == IF k <= Len(tok) /\ tok[k] \in {"+", "-"} THEN 1 ELSE 0

\* The number of characters of tok, from position k on, that an exponent
\* [eE][+-]?\d+ takes, 0 if there is none at k.
ExponentLen(tok, k) ==
    IF k <= Len(tok) /\ tok[k] \in {"e", "E"}
         /\ DigitRun(tok, k + 1 + SignAt(tok, k + 1)) > 0
    THEN 1 + SignAt(tok, k + 1) + DigitRun(tok, k + 1 + SignAt(tok, k + 1))
    ELSE 0

\* Line 22, third group, [+-]?\d+(?:\.\d+)?(?:[eE][+-]?\d+)? matched at the
\* start of tok: the length of the match, 0 if there is none.  Nothing
\* anchors the end of the match.
NumberMatchLen(tok) ==
    LET d1 == SignAt(tok, 1) + DigitRun(tok, 1 + SignAt(tok, 1))
        d2 == IF d1 + 1 <= Len(tok) /\ tok[d1 + 1] = "."
                   /\ DigitRun(tok, d1 + 2) > 0
              THEN d1 + 1 + DigitRun(tok, d1 + 2) ELSE d1
    IN  IF DigitRun(tok, 1 + SignAt(tok, 1)) = 0 THEN 0
        ELSE d2 + ExponentLen(tok, d2 + 1)

\* The literals float() takes besides decimal numbers, after the sign.
FloatWords ==
    {<<"i", "n", "f">>, <<"n", "a", "n">>,
     <<"i", "n", "f", "i", "n", "i", "t", "y">>}

\* float(tok) succeeds on a decimal number: sign, digits with an optional
\* point (a digit on at least one side of it), optional exponent, and
\* nothing else.
IsDecimal(tok) ==
    LET s0 == SignAt(tok, 1)
        n1 == DigitRun(tok, s0 + 1)
        pt == IF s0 + n1 + 1 <= Len(tok) /\ tok[s0 + n1 + 1] = "." THEN 1 ELSE 0
        n2 == IF pt = 1 THEN DigitRun(tok, s0 + n1 + 2) ELSE 0
        m  == s0 + n1 + pt + n2
    IN  /\ n1 + n2 > 0
        /\ m + ExponentLen(tok, m + 1) = Len(tok)

\* float(tok) does not raise ValueError.
IsFloat(tok) ==
    \/ IsDecimal(tok)
    \/ lower(SubSeq(tok, 1 + SignAt(tok, 1), Len(tok))) \in FloatWords

RECURSIVE DigitsValue(_)
\* int() of a sequence of digits, 0 for the empty one
DigitsValue(ds) ==
    IF ds = <<>> THEN 0
    ELSE 10 * DigitsValue(SubSeq(ds, 1, Len(ds) - 1)) + DigitValue(ds[Len(ds)])

RECURSIVE Normal(_, _)
\* m * 10^e with the trailing zeros of m moved into e; zero is 0 * 10^0
Normal(m, e) ==
    IF m = 0 THEN [m |-> 0, e |-> 0]
    ELSE IF m % 10 = 0 THEN Normal(m \div 10, e + 1)
    ELSE [m |-> m, e |-> e]

\* float(tok) for a tok that float() takes: m * 10^e, or inf, or nan.
FloatOf(tok) ==
    LET s0 == SignAt(tok, 1)
        neg == s0 = 1 /\ tok[1] = "-"
        n1 == DigitRun(tok, s0 + 1)
        pt == IF s0 + n1 + 1 <= Len(tok) /\ tok[s0 + n1 + 1] = "." THEN 1 ELSE 0
        n2 == IF pt = 1 THEN DigitRun(tok, s0 + n1 + 2) ELSE 0
        m  == s0 + n1 + pt + n2
        x  == ExponentLen(tok, m + 1)
        xs == SignAt(tok, m + 2)
        ex == IF x = 0 THEN 0
              ELSE (IF xs = 1 /\ tok[m + 2] = "-" THEN -1 ELSE 1)
                   * DigitsValue(SubSeq(tok, m + 2 + xs, m + x))
        mant == DigitsValue(SubSeq(tok, s0 + 1, s0 + n1)
                            \o SubSeq(tok, s0 + n1 + 2, s0 + n1 + 1 + n2))
    IN  IF IsDecimal(tok)
        THEN Normal(IF neg THEN -mant ELSE mant, ex - n2)
        ELSE [word |-> IF lower(SubSeq(tok, 1 + s0, Len(tok))) = <<"n", "a", "n">>
                       THEN "nan" ELSE "inf",
              negative |-> neg]

\* Line 22, first group: the letters between the two "=" of a token that is
\* "=", one or more letters, "="; None for any other token.
TagKey(tok) ==
    IF /\ Len(tok) >= 3
       /\ tok[1] = "="
       /\ tok[Len(tok)] = "="
       /\ \A k \in 2..(Len(tok) - 1) : IsLetter(tok[k])
    THEN Some(SubSeq(tok, 2, Len(tok) - 1))
    ELSE None

\* Line 18 without the test for "#": only a blank line is skipped.
IsBlankOnly(line) == line = <<>>

\* Line 18: the stripped line is empty or starts with "#".
IsBlankOrComment(line) == IF line = <<>> THEN TRUE ELSE line[1][1] = "#"

\* Lines 22-23: re.match succeeds: a tag, white space, a name.
IsTagged(line) == Len(line) >= 2 /\ TagKey(line[1]) # None

\* Lines 24-27: the name and the record of a tagged line.
TaggedName(line) == line[2]

TaggedRecord(line) ==
    <<V31_MAP_get(lower(TagKey(line[1])[1])),
      IF Len(line) >= 3 /\ NumberMatchLen(line[3]) > 0
      THEN Some(FloatOf(SubSeq(line[3], 1, NumberMatchLen(line[3]))))
      ELSE None>>

\* Lines 32-36: the index of the first status token, 0 if there is none
\* (status_idx, counted from 1 here).
StatusIdx(line) ==
    LET hits == {k \in 1..Len(line) : lower(line[k]) \in STATUS_KEYS}
    IN  IF hits = {} THEN 0 ELSE CHOOSE k \in hits : \A l \in hits : k <= l

\* Lines 40-44: the name of a fallback line, None if the status token has no
\* neighbour.
FallbackName(line) ==
    IF StatusIdx(line) > 1 THEN Some(line[StatusIdx(line) - 1])
    ELSE IF StatusIdx(line) + 1 <= Len(line) THEN Some(line[StatusIdx(line) + 1])
    ELSE None

\* Lines 47-53 reading the tokens from the left: the first number wins.
FirstNumber(line) ==
    LET hits == {k \in 1..Len(line) : IsFloat(line[k])}
    IN  IF hits = {} THEN None
        ELSE Some(FloatOf(line[CHOOSE k \in hits : \A l \in hits : k <= l]))

\* Lines 47-53: the last token that float() takes, None if there is none.
LastNumber(line) ==
    LET hits == {k \in 1..Len(line) : IsFloat(line[k])}
    IN  IF hits = {} THEN None
        ELSE Some(FloatOf(line[CHOOSE k \in hits : \A l \in hits : k >= l]))

\* Lines 39, 54: the record of a fallback line.
FallbackRecord(line) == <<lower(line[StatusIdx(line)]), LastNumber(line)>>

\* out[name] = rec
Put(d, name, rec) ==
    [x \in DOMAIN d \cup {name} |-> IF x = name THEN rec ELSE d[x]]

\* The tokens the lines are made of: tags (known, upper case, unknown,
\* malformed), a name, status words, numbers and near-numbers, a comment.
Vocabulary ==
    {<<"=", "o", "p", "t", "=">>,
     <<"=", "I", "N", "F", "=">>,
     <<"=", "f", "o", "o", "=">>,
     <<"=", "o", "1", "=">>,
     <<"p", "1">>,
     <<"o", "p", "t", "i", "m", "a", "l">>,
     <<"B", "e", "s", "t">>,
     <<"1", "2">>,
     <<"-", "3", ".", "5", "e", "2">>,
     <<"1", ".", "e", "5">>,
     <<".", "5">>,
     <<"7", "x">>,
     <<"#", "c">>}

Lines == UNION {[1..k -> Vocabulary] : k \in 0..MaxTokens}

\* A line that fills the mapping before the line under study is read.
FirstLine == <<<<"=", "o", "p", "t", "=">>, <<"p", "1">>, <<"1", "2">>>>

SoluInit ==
    /\ spc = "loop"
    /\ solu \in {<<l>> : l \in Lines} \cup {<<FirstLine, l>> : l \in Lines}
    /\ lineno = 0
    /\ out = <<>>
    /\ KnapIdle
    /\ LpIdle
    /\ MilpIdle
    /\ BurkIdle
    /\ FetchIdle

\* Lines 16-19: a blank line or a comment.
SoluSkipBlankOrComment ==
    /\ UNCHANGED soluOthers
    /\ spc = "loop"
    /\ lineno < Len(solu)
    /\ IsBlankOrComment(solu[lineno + 1])
    /\ lineno' = lineno + 1
    /\ UNCHANGED <<spc, solu, out>>

\* Lines 22-28: a tagged line.
SoluTagged ==
    /\ UNCHANGED soluOthers
    /\ spc = "loop"
    /\ lineno < Len(solu)
    /\ ~IsBlankOrComment(solu[lineno + 1])
    /\ IsTagged(solu[lineno + 1])
    /\ out' = Put(out, TaggedName(solu[lineno + 1]), TaggedRecord(solu[lineno + 1]))
    /\ lineno' = lineno + 1
    /\ UNCHANGED <<spc, solu>>

\* Lines 31-46: no status token, or a status token without a neighbour.
SoluSkipUnmatched ==
    /\ UNCHANGED soluOthers
    /\ spc = "loop"
    /\ lineno < Len(solu)
    /\ ~IsBlankOrComment(solu[lineno + 1])
    /\ ~IsTagged(solu[lineno + 1])
    /\ StatusIdx(solu[lineno + 1]) # 0 => FallbackName(solu[lineno + 1]) = None
    /\ lineno' = lineno + 1
    /\ UNCHANGED <<spc, solu, out>>

\* Lines 31-54: a fallback line.
SoluFallback ==
    /\ UNCHANGED soluOthers
    /\ spc = "loop"
    /\ lineno < Len(solu)
    /\ ~IsBlankOrComment(solu[lineno + 1])
    /\ ~IsTagged(solu[lineno + 1])
    /\ StatusIdx(solu[lineno + 1]) # 0
    /\ FallbackName(solu[lineno + 1]) # None
    /\ out' = Put(out, FallbackName(solu[lineno + 1])[1],
                  FallbackRecord(solu[lineno + 1]))
    /\ lineno' = lineno + 1
    /\ UNCHANGED <<spc, solu>>

\* Line 55
SoluReturn ==
    /\ UNCHANGED soluOthers
    /\ spc = "loop"
    /\ lineno = Len(solu)
    /\ spc' = "returned"
    /\ UNCHANGED <<solu, lineno, out>>

SoluNext ==
    \/ SoluSkipBlankOrComment
    \/ SoluTagged
    \/ SoluSkipUnmatched
    \/ SoluFallback
    \/ SoluReturn

SpecSolu == SoluInit /\ [][SoluNext]_vars

(***************************************************************************)
(* Properties of parse_miplib_solu.                                        *)
(***************************************************************************)
\* The line the loop has just processed.
Processed == solu[lineno]

\* A line that is neither blank nor a comment.
IsData(line) == line # <<>> /\ line[1][1] # "#"

\* The positions of the tokens of a line that are status words.
StatusPositions(line) == {k \in 1..Len(line) : lower(line[k]) \in STATUS_KEYS}

\* The positions of the tokens of a line that parse as numbers.
NumberPositions(line) == {k \in 1..Len(line) : IsFloat(line[k])}

Latest(S) == CHOOSE k \in S : \A l \in S : k >= l

\* The record the mapping holds for the tagged line just processed.
TaggedLineRecorded(objective) ==
    /\ Processed[2] \in DOMAIN out
    /\ out[Processed[2]] =
          <<V31_MAP_get(lower(TagKey(Processed[1])[1])), objective>>

\* C17 (as claimed): after a tagged line the mapping holds, under the name,
\* the status of the alias table and the third token as a number when it is
\* one, None otherwise.
C17_TaggedLineRecord ==
    (lineno >= 1 /\ IsData(Processed) /\ IsTagged(Processed)) =>
        TaggedLineRecorded(IF Len(Processed) >= 3 /\ IsFloat(Processed[3])
                           THEN Some(FloatOf(Processed[3])) ELSE None)

\* C17, the part the code does satisfy: the name and the status are as
\* claimed, and so is the objective when the third token is absent or is
\* wholly of the form sign, digits, fraction, exponent.
C17_TaggedLineRecordPlainNumber ==
    (lineno >= 1 /\ IsData(Processed) /\ IsTagged(Processed)) =>
        /\ Processed[2] \in DOMAIN out
        /\ out[Processed[2]][1] = V31_MAP_get(lower(TagKey(Processed[1])[1]))
        /\ Len(Processed) = 2 => out[Processed[2]][2] = None
        /\ (Len(Processed) >= 3 /\ NumberMatchLen(Processed[3]) = Len(Processed[3]))
              => out[Processed[2]][2] = Some(FloatOf(Processed[3]))

\* C18: after a line that is not tagged and has a status word with a
\* neighbour, the mapping holds, under the token before the first status
\* word (after it when it is the first token), that status word in lower
\* case and the last token that parses as a number, None when none does.
C18_FallbackLineRecord ==
    (/\ lineno >= 1
     /\ IsData(Processed)
     /\ ~IsTagged(Processed)
     /\ StatusPositions(Processed) # {}
     /\ Len(Processed) >= 2) =>
        LET st == Earliest(StatusPositions(Processed))
            name == IF st > 1 THEN Processed[st - 1] ELSE Processed[st + 1]
        IN  /\ name \in DOMAIN out
            /\ out[name] =
                  <<lower(Processed[st]),
                    IF NumberPositions(Processed) = {} THEN None
                    ELSE Some(FloatOf(Processed[Latest(NumberPositions(Processed))]))>>

\* C18 witness: a line "number status number" was recorded under its first
\* token with its last token as the objective.
C18_Witness ==
    /\ lineno = 1
    /\ ~IsTagged(Processed)
    /\ StatusPositions(Processed) = {2}
    /\ NumberPositions(Processed) = {1, 3}
    /\ Processed[1] \in DOMAIN out
    /\ out[Processed[1]][2] = Some(FloatOf(Processed[3]))
    /\ FloatOf(Processed[3]) # FloatOf(Processed[1])

\* A line that is to be skipped: blank, a comment, matching neither grammar,
\* or a status word on its own.
Skipped(line) ==
    \/ line = <<>>
    \/ line # <<>> /\ line[1][1] = "#"
    \/ line # <<>> /\ ~IsTagged(line) /\ StatusPositions(line) = {}
    \/ Len(line) = 1 /\ StatusPositions(line) = {1}

\* C19: processing a blank line, a comment, a line of neither grammar or a
\* lone status word leaves the mapping as it was, raises nothing, and the
\* loop goes on with the next line.
C19_SkippedLinesKeepMapping ==
    [][(spc = "loop" /\ lineno < Len(solu) /\ Skipped(solu[lineno + 1])) =>
          (out' = out /\ lineno' = lineno + 1 /\ spc' = "loop")]_vars

\* C19 witness: a comment containing a status word and a name followed a
\* recorded line, and the mapping still holds that record only.
C19_Witness ==
    /\ lineno = 2
    /\ Len(solu[2]) = 3
    /\ solu[2][1][1] = "#"
    /\ StatusPositions(solu[2]) = {2}
    /\ out = Put(<<>>, TaggedName(FirstLine), TaggedRecord(FirstLine))

(***************************************************************************)
(* Further properties of solve_milp: the translated variable domains.      *)
(***************************************************************************)
\* The domain the backend model gives variable j: a pair of optional ends,
\* None for an end that is unbounded.
BackendDomain(j) ==
    IF backend = "cbc"
    THEN <<Some(model[1].vars[j].lb), model[1].vars[j].ub>>
    ELSE <<Some(model[1].vars[j].lo), Some(model[1].vars[j].hi)>>

\* Variable j was given with (lower, upper) pairs and is not binary.
GivenNonBinary(j) ==
    /\ problem.bounds # None
    /\ j \in 1..P[1].n
    /\ P[1].integrality[j] # "B"

\* C20 (as claimed): in the backend model a variable whose lower bound is
\* None is unbounded below and a variable whose upper bound is None is
\* unbounded above.
C20_AbsentBoundsUnbounded ==
    model # None =>
        \A j \in 1..Len(model[1].vars) :
            GivenNonBinary(j) =>
                /\ P[1].bounds[j][1] = None => BackendDomain(j)[1] = None
                /\ P[1].bounds[j][2] = None => BackendDomain(j)[2] = None

\* C20, the part the code does satisfy: on the CBC path a variable whose
\* upper bound is None is unbounded above.
C20_CbcAbsentUpperBoundUnbounded ==
    (model # None /\ backend = "cbc") =>
        \A j \in 1..Len(model[1].vars) :
            (GivenNonBinary(j) /\ P[1].bounds[j][2] = None) =>
                BackendDomain(j)[2] = None

(***************************************************************************)
(* Further properties of solve_milp: one attempt per call.                 *)
(***************************************************************************)
\* The step is a call of the backend's Solve.
SolveStep == mpc \in {"cbc_solve", "cpsat_solve"} /\ mpc' # mpc

\* C21: a backend is chosen only after _normalize has returned and is never
\* changed afterwards; Solve is called only on the chosen backend and only
\* if it has not been called before; the step after a Solve, whatever its
\* status, is the return; and a call that returns with an available backend
\* has been through exactly one Solve.
C21_OneBackendOneSolve ==
    /\ [][/\ backend' # backend =>
                (backend = "none" /\ mpc = "normalized" /\ P # None)
          /\ SolveStep =>
                /\ status_code = None /\ status_code' # None
                /\ backend' = backend
                /\ mpc = "cbc_solve" <=> backend = "cbc"
                /\ mpc = "cpsat_solve" <=> backend = "cpsat"
          /\ ~SolveStep => status_code' = status_code
          /\ mpc \in {"cbc_pack", "cpsat_pack"} =>
                (mpc' = "returned" /\ backend' = backend)
          /\ mpc \in {"returned", "raised"} => mpc' = mpc]_vars
    /\ [](mpc = "returned" =>
            /\ backend \in {"cbc", "cpsat"}
            /\ status_code = None <=> "error" \in DOMAIN result[1].extras)
    /\ [](mpc = "raised" => status_code = None)

\* C21 witness: CBC stopped without a solution, and the call returned
\* NotSolved with that one status and CBC still the backend.
C21_Witness ==
    /\ mpc = "returned"
    /\ backend = "cbc"
    /\ status_code = Some("NOT_SOLVED")
    /\ result[1].status = "NotSolved"

(***************************************************************************)
(* Further properties of solve_milp: the assignment of an Optimal result.  *)
(***************************************************************************)
\* The assignment has one entry per variable, the entry under the i-th name
\* holding the backend's value of the i-th variable.
OneEntryPerVariable ==
    /\ Cardinality(DOMAIN result[1].assignment) = P[1].n
    /\ \A j \in 1..P[1].n :
          /\ P[1].var_names[j] \in DOMAIN result[1].assignment
          /\ result[1].assignment[P[1].var_names[j]] = backend_x[1][j]

NamesDistinct ==
    \A j, k \in 1..P[1].n : P[1].var_names[j] = P[1].var_names[k] => j = k

\* C22 (as claimed): an Optimal result for n variables has an assignment of
\* exactly n entries, one per variable, each holding that variable's value.
C22_OptimalAssignmentComplete ==
    (mpc = "returned" /\ result[1].status = "Optimal") => OneEntryPerVariable

\* C22, the part the code does satisfy: the same, for a problem whose
\* variable names are pairwise distinct.
C22_OptimalAssignmentCompleteForDistinctNames ==
    (mpc = "returned" /\ result[1].status = "Optimal" /\ NamesDistinct) =>
        OneEntryPerVariable

(***************************************************************************)
(* Further properties of solve_milp: the statuses that are not surfaced.   *)
(***************************************************************************)
\* The backend status is one solve_milp passes on under a name of its own.
SurfacedStatus ==
    \/ status_code[1] \in {"OPTIMAL", "INFEASIBLE"}
    \/ backend = "cbc" /\ status_code[1] = "UNBOUNDED"

\* C23: a call that returns after a Solve whose status is not optimal, not
\* infeasible and not (on the CBC path) unbounded returns NotSolved, no
\* objective and an empty assignment, also when the backend holds a
\* solution; the CP-SAT path never returns Unbounded.
C23_OtherStatusesAreNotSolved ==
    (mpc = "returned" /\ status_code # None) =>
        /\ ~SurfacedStatus =>
              /\ result[1].status = "NotSolved"
              /\ result[1].objective = None
              /\ result[1].assignment = <<>>
        /\ backend = "cpsat" => result[1].status # "Unbounded"

\* C23 witness: CP-SAT stopped with a feasible solution it had not proved
\* optimal, and the call returned NotSolved with nothing in it.
C23_Witness ==
    /\ mpc = "returned"
    /\ backend = "cpsat"
    /\ status_code = Some("FEASIBLE")
    /\ backend_obj # None
    /\ result[1].status = "NotSolved"
    /\ result[1].objective = None
    /\ result[1].assignment = <<>>

(***************************************************************************)
(* Further properties of load_lpnetlib_mat: the emitted rows.              *)
(***************************************************************************)
\* The row bounds as the file gives them, an absent vector being infinite.
RowLower(r) == IF mat.rl = None THEN NegInf ELSE mat.rl[1][r]

RowUpper(r) == IF mat.ru = None THEN PosInf ELSE mat.ru[1][r]

\* The three classes of the row-bound partitioning.
IsEqualityRow(r) ==
    /\ RowLower(r).fin
    /\ RowUpper(r).fin
    /\ Abs(RowUpper(r).v - RowLower(r).v) <= eq_tol

IsLeRow(r) == RowUpper(r).fin /\ ~IsEqualityRow(r)

IsGeRow(r) == RowLower(r).fin /\ ~IsEqualityRow(r)

\* The rows of a class, in the order of the file.
RowsOfClass(InClass(_)) == SelectSeq([r \in 1..NumRows(mat) |-> r], InClass)

\* The call returned after partitioning the rows by rl/ru.
ReturnedPartitioned == lpc = "returned" /\ (mat.rl # None \/ mat.ru # None)

OrNone(rows) == IF rows = <<>> THEN None ELSE Some(rows)

\* C24: with row bounds present, A_eq holds the equality rows as they are
\* with their ru; A_ub holds the <= rows as they are, in file order, and
\* after them the >= rows negated, in file order; b_ub holds ru for the
\* former and -rl for the latter, entry by entry.
C24_RowsEmittedAndFolded ==
    ReturnedPartitioned =>
        LET A == mat.A[1]
            eqs == RowsOfClass(IsEqualityRow)
            les == RowsOfClass(IsLeRow)
            ges == RowsOfClass(IsGeRow)
        IN  /\ lp_problem[1].A_eq = OrNone([k \in 1..Len(eqs) |-> A[eqs[k]]])
            /\ lp_problem[1].b_eq =
                  OrNone([k \in 1..Len(eqs) |-> RowUpper(eqs[k])])
            /\ lp_problem[1].A_ub =
                  OrNone([k \in 1..Len(les) |-> A[les[k]]] \o
                         [k \in 1..Len(ges) |->
                            [j \in 1..NumCols(mat) |-> 0 - A[ges[k]][j]]])
            /\ lp_problem[1].b_ub =
                  OrNone([k \in 1..Len(les) |-> RowUpper(les[k])] \o
                         [k \in 1..Len(ges) |-> Fin(0 - RowLower(ges[k]).v)])

\* C24 witness: a returned file whose first row is a >= row and whose
\* second row is a <= row, so that A_ub lists them in the other order.
C24_Witness ==
    /\ ReturnedPartitioned
    /\ NumRows(mat) >= 2
    /\ IsGeRow(1) /\ ~IsLeRow(1)
    /\ IsLeRow(2) /\ ~IsGeRow(2)
    /\ lp_problem[1].A_ub = Some(<<mat.A[1][2], NegateRow(mat.A[1][1])>>)

\* The row constraints of the returned problem.
EmittedRows ==
    <<lp_problem[1].A_eq, lp_problem[1].b_eq,
      lp_problem[1].A_ub, lp_problem[1].b_ub>>

\* The row constraints a file with the same A, rl, ru and no b at all gives:
\* nothing in it reads mat.b.
EmittedRowsWithoutRhs ==
    LET A == mat.A[1]
        eqs == RowsOfClass(IsEqualityRow)
        les == RowsOfClass(IsLeRow)
        ges == RowsOfClass(IsGeRow)
    IN  <<OrNone(Take(A, eqs)),
          OrNone([k \in 1..Len(eqs) |-> RowUpper(eqs[k])]),
          OrNone(Take(A, les) \o
                 [k \in 1..Len(ges) |-> [j \in 1..NumCols(mat) |-> 0 - A[ges[k]][j]]]),
          OrNone([k \in 1..Len(les) |-> RowUpper(les[k])] \o
                 [k \in 1..Len(ges) |-> Fin(0 - RowLower(ges[k]).v)])>>

\* C25: with b resolved and neither rl nor ru, the problem is A x = b and
\* has no <= rows; with rl or ru resolved, the rows are what they would be
\* without b, and b raises nothing whatever its length; with none of the
\* three, the problem has no row constraints.
C25_RhsUsedOnlyWithoutRowBounds ==
    /\ lpc = "returned" =>
          IF mat.rl # None \/ mat.ru # None
          THEN EmittedRows = EmittedRowsWithoutRhs
          ELSE IF mat.b # None
          THEN EmittedRows = <<mat.A, mat.b, None, None>>
          ELSE EmittedRows = <<None, None, None, None>>
    /\ (lpc = "raised" /\ (mat.rl # None \/ mat.ru # None)) =>
          lerror # "Inconsistent sizes: len(b) != m (rows of A)."

\* C25 witness: a file with rl and a b of the wrong length was returned.
C25_Witness ==
    /\ lpc = "returned"
    /\ mat.rl # None
    /\ mat.b # None
    /\ Len(mat.b[1]) # NumRows(mat)
    /\ lp_problem[1].b_eq # mat.b

(***************************************************************************)
(* Further properties of load_lpnetlib_mat: the variable bounds.           *)
(***************************************************************************)
\* One side of the emitted bound of column j: the default when the vector is
\* absent, None for an entry that is not finite, the entry otherwise.
EmittedSide(field, default, j) ==
    IF field = None THEN default
    ELSE IF field[1][j].fin THEN Some(field[1][j].v)
    ELSE None

\* C26: the returned bounds are n pairs; the lower side is 0 everywhere
\* when lo is absent and the upper side is None everywhere when hi is
\* absent, whatever the other vector is; a supplied entry that is not finite
\* is emitted as None.
C26_BoundsDefaultPerSide ==
    lpc = "returned" =>
        /\ Len(lp_problem[1].bounds) = NumCols(mat)
        /\ \A j \in 1..NumCols(mat) :
              lp_problem[1].bounds[j] =
                  <<EmittedSide(mat.lo, Some(0), j), EmittedSide(mat.hi, None, j)>>

\* C26 witness: lo was absent and hi was supplied with a finite entry; the
\* returned pair has lower bound 0 and that upper bound.
C26_Witness ==
    /\ lpc = "returned"
    /\ mat.lo = None
    /\ mat.hi # None
    /\ mat.hi[1][1] = Fin(2)
    /\ lp_problem[1].bounds[1] = <<Some(0), Some(2)>>

(***************************************************************************)
(* Further properties of load_lpnetlib_mat: the emitted system against the *)
(* row bounds of the file.                                                 *)
(***************************************************************************)
Points == [1..NumCols(mat) -> (0 - MaxCoord)..MaxCoord]

\* (A x)[r] for a row of A
Dot(row, x) == SumOver([j \in 1..Len(row) |-> row[j] * x[j]], 1..Len(row))

\* rl[r] <= (A x)[r] <= ru[r] for every row r, over the extended reals.
WithinRowBounds(x) ==
    \A r \in 1..NumRows(mat) :
        LET d == Dot(mat.A[1][r], x) IN
        /\ IF RowLower(r).fin THEN RowLower(r).v <= d ELSE RowLower(r) = NegInf
        /\ IF RowUpper(r).fin THEN d <= RowUpper(r).v ELSE RowUpper(r) = PosInf

\* A_eq x = b_eq and A_ub x <= b_ub for the returned problem.
WithinEmittedRows(x) ==
    /\ lp_problem[1].A_eq # None =>
          \A k \in 1..Len(lp_problem[1].A_eq[1]) :
              Dot(lp_problem[1].A_eq[1][k], x) = lp_problem[1].b_eq[1][k].v
    /\ lp_problem[1].A_ub # None =>
          \A k \in 1..Len(lp_problem[1].A_ub[1]) :
              Dot(lp_problem[1].A_ub[1][k], x) <= lp_problem[1].b_ub[1][k].v

\* No lower row bound is +infinity and no upper row bound is -infinity.
RowBoundsProper ==
    \A r \in 1..NumRows(mat) : RowLower(r) # PosInf /\ RowUpper(r) # NegInf

\* C27 (as claimed): with eq_tol = 0, a point satisfies the row bounds of
\* the file exactly when it satisfies the emitted system.
C27_EmittedSystemEquivalent ==
    (ReturnedPartitioned /\ eq_tol = 0) =>
        \A x \in Points : WithinRowBounds(x) <=> WithinEmittedRows(x)

\* C27 (amended): the same, for files in which no lower row bound is
\* +infinity and no upper row bound is -infinity.
C27_EmittedSystemEquivalentForProperBounds ==
    (ReturnedPartitioned /\ eq_tol = 0 /\ RowBoundsProper) =>
        \A x \in Points : WithinRowBounds(x) <=> WithinEmittedRows(x)

\* C27 witness: a file with a range row 0 <= (A x)[1] <= 1 and a free row
\* was returned; some points are within its row bounds and some are not.
C27_Witness ==
    /\ ReturnedPartitioned
    /\ eq_tol = 0
    /\ mat.rl = Some(<<Fin(0), NegInf>>)
    /\ mat.ru = Some(<<Fin(1), PosInf>>)
    /\ \E x \in Points : WithinRowBounds(x) /\ WithinEmittedRows(x)
    /\ \E x \in Points : ~WithinRowBounds(x) /\ ~WithinEmittedRows(x)

(***************************************************************************)
(* Further properties of solve_knapsack_01: which optimal subset.          *)
(***************************************************************************)
\* The best value of the first k items within cap halves, by enumeration.
BestOfFirst(k, cap) ==
    LET totals == {SumOver(ValuesAt, S) :
                     S \in {T \in SUBSET (1..k) : SumOver(HalvesAt, T) <= cap}}
    IN  CHOOSE t \in totals : \A u \in totals : u <= t

RECURSIVE DecidedFromLast(_, _)
\* The items kept when item k, then k-1, ... is decided: an item is kept
\* exactly when the first k items do strictly better than the first k-1.
DecidedFromLast(k, cap) ==
    IF k = 0 THEN {}
    ELSE IF BestOfFirst(k, cap) > BestOfFirst(k - 1, cap)
    THEN {k} \cup DecidedFromLast(k - 1, cap - HalvesAt[k])
    ELSE DecidedFromLast(k - 1, cap)

OptimalSubsets == {S \in FeasibleSubsets : SumOver(ValuesAt, S) = BruteForce}

\* The membership vector of S read from the last item to the first, as a
\* binary number: a smaller number is a lexicographically smaller vector.
FromLastKey(S) == SumOver([k \in 1..Len(values) |-> 2 ^ k], S)

\* C28: when the table is built (n >= 1, capacity >= 1) the returned subset
\* is the one obtained by deciding the items from the last to the first,
\* keeping an item only when the best value strictly drops without it; it
\* is optimal, and no optimal subset has a smaller membership vector read
\* from the last item to the first.
C28_CanonicalOptimalSubset ==
    (kpc = "returned" /\ dp # <<>>) =>
        /\ ItemsOf(selected) = DecidedFromLast(Len(values), capacity.h)
        /\ ItemsOf(selected) \in OptimalSubsets
        /\ \A T \in OptimalSubsets :
              FromLastKey(ItemsOf(selected)) <= FromLastKey(T)

\* C28 witness: two different subsets were optimal, and the returned one
\* left out the last item.
C28_Witness ==
    /\ kpc = "returned"
    /\ dp # <<>>
    /\ Cardinality(OptimalSubsets) >= 2
    /\ selected # <<>>
    /\ Len(values) \notin ItemsOf(selected)
    /\ \E T \in OptimalSubsets : Len(values) \in T

(***************************************************************************)
(* Further properties of solve_milp: the casts of the CP-SAT path.         *)
(***************************************************************************)
IntegerLikeErrors ==
    {"lb must be integer-like for CP-SAT", "ub must be integer-like for CP-SAT",
     "A must be integer-like for CP-SAT", "b must be integer-like for CP-SAT",
     "c must be integer-like for CP-SAT"}

\* Every entry of the rows and of the right-hand side is within 1e-9 of its
\* rounding.
PairWithinTolerance(A, b) ==
    /\ \A r \in 1..Len(A) : \A j \in 1..Len(A[r]) : RoundDistance(A[r][j]) <= Tol
    /\ \A r \in 1..Len(b) : RoundDistance(b[r]) <= Tol

\* C29: on the CP-SAT path no cast of _build_model fails: the call never
\* raises a 'must be integer-like' error, and every objective coefficient,
\* bound of a non-binary variable, matrix coefficient and right-hand side
\* is within 1e-9 of the integer it is cast to.
C29_CastsSucceedOnCpSatPath ==
    backend = "cpsat" =>
        /\ merror \notin IntegerLikeErrors
        /\ \A j \in 1..P[1].n :
              /\ RoundDistance(P[1].c[j]) <= Tol
              /\ \A side \in {1, 2} :
                    (P[1].integrality[j] # "B" /\ P[1].bounds[j][side] # None)
                        => RoundDistance(P[1].bounds[j][side][1]) <= Tol
        /\ P[1].A_eq # None => PairWithinTolerance(P[1].A_eq[1], P[1].b_eq[1])
        /\ P[1].A_ub # None => PairWithinTolerance(P[1].A_ub[1], P[1].b_ub[1])

\* C29 witness: a problem whose first objective coefficient is 2 + 5e-10 was
\* routed to CP-SAT and the model was built with the coefficient 2.
C29_Witness ==
    /\ backend = "cpsat"
    /\ model # None
    /\ P[1].n >= 1
    /\ P[1].c[1] = Num(2, 1)
    /\ model[1].obj[1] = 2

(***************************************************************************)
(* Further properties of solve_milp: the domain of a binary variable.      *)
(***************************************************************************)
\* The integers near 0 and 1 at which two domains are compared.
Window == -2..2

\* The integers of the window a CBC variable admits.
CbcValues(v) ==
    {k \in Window : /\ LessEq(v.lb, Whole(k))
                    /\ v.ub # None => LessEq(Whole(k), v.ub[1])}

\* The integers of the window a CP-SAT variable admits.
CpSatValues(v) == {k \in Window : v.lo <= k /\ k <= v.hi}

\* The integers of the window the model that was built admits for variable j.
BuiltValues(j) ==
    IF backend = "cbc" THEN CbcValues(model[1].vars[j])
    ELSE CpSatValues(model[1].vars[j])

\* C30 (as claimed): for every binary variable of a problem that was
\* translated, the two translations admit the same values, and the values
\* of the translation that was built are among 0 and 1.
C30_BinaryDomainSameOnBothPaths ==
    model # None =>
        \A j \in 1..P[1].n :
            P[1].integrality[j] = "B" =>
                /\ CbcValues(CbcVar(P[1], j)) = CpSatValues(CpSatModel(P[1]).vars[j])
                /\ BuiltValues(j) \subseteq {0, 1}

\* C30, the part the code does satisfy: the same, for a binary variable
\* whose lower bound is None or 0 and whose upper bound is None or >= 1.
C30_BinaryDomainSameForLooseBounds ==
    model # None =>
        \A j \in 1..P[1].n :
            (/\ P[1].integrality[j] = "B"
             /\ P[1].bounds[j][1] \in {None, Some(Whole(0))}
             /\ P[1].bounds[j][2] # None => LessEq(Whole(1), P[1].bounds[j][2][1]))
            => /\ CbcValues(CbcVar(P[1], j)) = {0, 1}
               /\ CpSatValues(CpSatModel(P[1]).vars[j]) = {0, 1}
               /\ BuiltValues(j) = {0, 1}

=============================================================================
